---- MODULE Spec2Model ----
(***************************************************************************)
(* Model of the Sudoku exact-cover solver (main_dancing_links.cpp).        *)
(* The grid side is scaled from 25 to 4 (2x2 boxes), the smallest size on  *)
(* which rows, columns and boxes differ; everything else follows the code. *)
(* The initial states are the states sudokuSolver is in once the file has  *)
(* been read and the linked structure constructed (or once it has returned *)
(* because the file did not open); the actions are the steps of            *)
(* updateDoublyLinkedList, search and the end of sudokuSolver.             *)
(***************************************************************************)
EXTENDS Integers, Sequences, FiniteSets, TLC

\* ------------------------------------------------------------------ sizes
SUDOKU_SIZE == 4
SUDOKU_SIZE_SQUARED == SUDOKU_SIZE * SUDOKU_SIZE
SUDOKU_SIZE_SQUARE_ROOT == CHOOSE s \in 0..SUDOKU_SIZE : s * s = SUDOKU_SIZE
ROWS == SUDOKU_SIZE * SUDOKU_SIZE * SUDOKU_SIZE
COLUMNS == 4 * SUDOKU_SIZE * SUDOKU_SIZE

\* nullptr, and the value of a field that was never assigned
Null == 0 - 1

\* The heap: the head node, COLUMNS column nodes and four nodes per row,
\* numbered in the order initializeDoublyLinkedList allocates them.
headNode == 0
NumNodes == 1 + COLUMNS + 4 * ROWS
Nodes == 0..(NumNodes - 1)
ColumnNodes == 1..COLUMNS
RowNodes == (COLUMNS + 1)..(NumNodes - 1)
Cells == 0..(SUDOKU_SIZE_SQUARED - 1)
Values == 0..(SUDOKU_SIZE - 1)

\* ------------------------------------------------- initializeExactCoverProblem
\* The four constraint columns of exact-cover row i.
Candidate(i) == i % SUDOKU_SIZE
RowOf(i) == i \div SUDOKU_SIZE_SQUARED
ColumnOf(i) == (i \div SUDOKU_SIZE) % SUDOKU_SIZE
\* Variant: the box row is not scaled by the box side.
BoxOfUnscaled(row, column) ==
    (row \div SUDOKU_SIZE_SQUARE_ROOT) + (column \div SUDOKU_SIZE_SQUARE_ROOT)

BoxOf(row, column) ==
    (row \div SUDOKU_SIZE_SQUARE_ROOT) * SUDOKU_SIZE_SQUARE_ROOT
        + (column \div SUDOKU_SIZE_SQUARE_ROOT)

CellConstraint(i) == 0 * SUDOKU_SIZE_SQUARED + RowOf(i) * SUDOKU_SIZE + ColumnOf(i)
RowConstraint(i) == 1 * SUDOKU_SIZE_SQUARED + RowOf(i) * SUDOKU_SIZE + Candidate(i)
ColumnConstraint(i) == 2 * SUDOKU_SIZE_SQUARED + ColumnOf(i) * SUDOKU_SIZE + Candidate(i)
BoxConstraint(i) ==
    3 * SUDOKU_SIZE_SQUARED + BoxOf(RowOf(i), ColumnOf(i)) * SUDOKU_SIZE + Candidate(i)

initializeExactCoverProblem ==
    [i \in 0..(ROWS - 1) |->
        [j \in 0..(COLUMNS - 1) |->
            j \in {CellConstraint(i), RowConstraint(i),
                   ColumnConstraint(i), BoxConstraint(i)}]]

EXACT_COVER_PROBLEM == initializeExactCoverProblem

\* ------------------------------------------------- initializeDoublyLinkedList
\* A structure under construction: the five mutable fields of every node,
\* the two fields fixed at allocation, and the next free node.
EmptyHeap ==
    [leftNode   |-> [n \in Nodes |-> Null],
     rightNode  |-> [n \in Nodes |-> Null],
     upperNode  |-> [n \in Nodes |-> Null],
     lowerNode  |-> [n \in Nodes |-> Null],
     columnSize |-> [n \in Nodes |-> Null],
     columnNode |-> [n \in Nodes |-> Null],
     identifier |-> [n \in Nodes |-> <<Null, Null, Null>>],
     next       |-> 1]

\* for (i = lo; i < hi; i++) acc = Body(i, acc). The range is halved and the
\* first half is evaluated (its domain is read) before the second half
\* starts, so that the evaluation depth stays logarithmic in the trip count.
RECURSIVE For(_, _, _, _)
For(Body(_, _), lo, hi, acc) ==
    IF hi <= lo THEN acc
    ELSE IF hi = lo + 1 THEN Body(lo, acc)
    ELSE LET mid == (lo + hi) \div 2
             first == For(Body, lo, mid, acc)
         IN IF DOMAIN first # {} THEN For(Body, mid, hi, first) ELSE first

\* Lines 180-190: one column node, appended to the ring of column nodes.
\* loop is the structure st and the local columnNode.
InitColumnNode(i, loop) ==
    LET st == loop.st
        columnNode == loop.columnNode
        newNode == st.next
        s1 == [st EXCEPT !.next = @ + 1,
                         !.leftNode[newNode] = columnNode,
                         !.rightNode[newNode] = headNode,
                         !.upperNode[newNode] = newNode,
                         !.lowerNode[newNode] = newNode,
                         !.columnSize[newNode] = 0]
        s2 == [s1 EXCEPT !.rightNode[columnNode] = newNode]
        s3 == [s2 EXCEPT !.leftNode[headNode] = newNode]
    IN [st |-> s3, columnNode |-> newNode]

\* Variant: the row is stored in place of the candidate.
RowIdentifierRowTwice(i) ==
    <<i \div SUDOKU_SIZE_SQUARED, i \div SUDOKU_SIZE_SQUARED,
      (i \div SUDOKU_SIZE) % SUDOKU_SIZE>>

\* Lines 199-201 and 214-216: the identifier (candidate, row, column) of the
\* nodes of row i.
RowIdentifier(i) ==
    <<i % SUDOKU_SIZE, i \div SUDOKU_SIZE_SQUARED,
      (i \div SUDOKU_SIZE) % SUDOKU_SIZE>>

\* Lines 207-241: column j of row i; a node is created for a 1 of ECP[i][j].
\* loop is the structure st and the locals columnNode and previousNode.
InitRowNode(ECP, i, j, loop) ==
    LET st == loop.st
        columnNode == loop.columnNode
        previousNode == loop.previousNode
        newNode == st.next
        a == [st EXCEPT !.next = @ + 1,
                        !.identifier[newNode] = RowIdentifier(i),
                        !.columnNode[newNode] = columnNode,
                        !.columnSize[columnNode] = @ + 1]
        b == IF previousNode = Null
             THEN [a EXCEPT !.rightNode[newNode] = newNode,
                            !.leftNode[newNode] = newNode]
             ELSE LET b1 == [a EXCEPT !.leftNode[newNode] = previousNode,
                                      !.rightNode[newNode] =
                                          a.rightNode[previousNode]]
                      b2 == [b1 EXCEPT
                               !.leftNode[b1.rightNode[newNode]] = newNode]
                  IN [b2 EXCEPT !.rightNode[previousNode] = newNode]
        c1 == [b EXCEPT !.upperNode[newNode] = b.upperNode[columnNode],
                        !.lowerNode[newNode] = columnNode]
        c2 == [c1 EXCEPT !.lowerNode[c1.upperNode[columnNode]] = newNode]
        c3 == [c2 EXCEPT !.upperNode[columnNode] = newNode]
    IN IF ECP[i][j]
       THEN [st |-> c3, columnNode |-> c3.rightNode[columnNode],
             previousNode |-> newNode]
       ELSE [st |-> st, columnNode |-> st.rightNode[columnNode],
             previousNode |-> previousNode]

\* Lines 194-243: row i of the exact cover problem.
InitRow(ECP, i, st) ==
    LET Body(j, loop) == InitRowNode(ECP, i, j, loop)
    IN For(Body, 0, COLUMNS,
           [st |-> st, columnNode |-> st.rightNode[headNode],
            previousNode |-> Null]).st

initializeDoublyLinkedList(ECP) ==
    LET columns == For(InitColumnNode, 0, COLUMNS,
                       [st |-> EmptyHeap, columnNode |-> headNode]).st
        Body(i, st) == InitRow(ECP, i, st)
    IN For(Body, 0, ROWS, columns)

\* Lines 474-475: the structure sudokuSolver builds.
Built == initializeDoublyLinkedList(EXACT_COVER_PROBLEM)

\* The linked structure as a value: the fields of every node.
Structure(l, r, u, d, cn, sz, id) ==
    [leftNode |-> l, rightNode |-> r, upperNode |-> u, lowerNode |-> d,
     columnNode |-> cn, columnSize |-> sz, identifier |-> id]

\* -------------------------------------------------------------- coverColumn
\* Variant: the row is unlinked from its columns but columnSize is kept.
RECURSIVE CoverRowLinksKeepSize(_, _, _)
CoverRowLinksKeepSize(ds, rowNode, rightLink) ==
    IF rightLink = rowNode THEN ds
    ELSE LET d1 == [ds EXCEPT !.upperNode[ds.lowerNode[rightLink]] =
                                  ds.upperNode[rightLink]]
             d2 == [d1 EXCEPT !.lowerNode[d1.upperNode[rightLink]] =
                                  d1.lowerNode[rightLink]]
         IN CoverRowLinksKeepSize(d2, rowNode, d2.rightNode[rightLink])

\* Lines 300-308: unlink every other node of the row from its column.
RECURSIVE CoverRowLinks(_, _, _)
CoverRowLinks(ds, rowNode, rightLink) ==
    IF rightLink = rowNode THEN ds
    ELSE LET d1 == [ds EXCEPT !.upperNode[ds.lowerNode[rightLink]] =
                                  ds.upperNode[rightLink]]
             d2 == [d1 EXCEPT !.lowerNode[d1.upperNode[rightLink]] =
                                  d1.lowerNode[rightLink]]
             d3 == [d2 EXCEPT !.columnSize[ds.columnNode[rightLink]] = @ - 1]
         IN CoverRowLinks(d3, rowNode, d3.rightNode[rightLink])

\* Variant: only the first row of the column is unlinked.
CoverRowsFirstOnly(ds, column, rowNode) ==
    IF rowNode = column THEN ds
    ELSE CoverRowLinks(ds, rowNode, ds.rightNode[rowNode])

\* Lines 299-309: every row of the column, going down.
RECURSIVE CoverRows(_, _, _)
CoverRows(ds, column, rowNode) ==
    IF rowNode = column THEN ds
    ELSE LET d == CoverRowLinks(ds, rowNode, ds.rightNode[rowNode])
         IN CoverRows(d, column, d.lowerNode[rowNode])

\* Variant: the column is taken out of the ring and its rows are left linked.
coverColumnHeaderOnly(ds, column) ==
    LET d1 == [ds EXCEPT !.leftNode[ds.rightNode[column]] = ds.leftNode[column]]
    IN [d1 EXCEPT !.rightNode[d1.leftNode[column]] = d1.rightNode[column]]

\* Variant: the covered column is left pointing at itself.
coverColumnSelfLinked(ds, column) ==
    LET d1 == [ds EXCEPT !.leftNode[ds.rightNode[column]] = ds.leftNode[column]]
        d2 == [d1 EXCEPT !.rightNode[d1.leftNode[column]] = d1.rightNode[column]]
        d3 == [d2 EXCEPT !.leftNode[column] = column, !.rightNode[column] = column]
    IN CoverRows(d3, column, d3.lowerNode[column])

coverColumn(ds, column) ==
    LET d1 == [ds EXCEPT !.leftNode[ds.rightNode[column]] = ds.leftNode[column]]
        d2 == [d1 EXCEPT !.rightNode[d1.leftNode[column]] = d1.rightNode[column]]
    IN CoverRows(d2, column, d2.lowerNode[column])

\* ------------------------------------------------------------ uncoverColumn
\* Variant: columnSize is not incremented when a node is relinked.
RECURSIVE UncoverRowLinksKeepSize(_, _, _)
UncoverRowLinksKeepSize(ds, rowNode, leftLink) ==
    IF leftLink = rowNode THEN ds
    ELSE LET d2 == [ds EXCEPT !.lowerNode[ds.upperNode[leftLink]] = leftLink]
             d3 == [d2 EXCEPT !.upperNode[d2.lowerNode[leftLink]] = leftLink]
         IN UncoverRowLinksKeepSize(d3, rowNode, d3.leftNode[leftLink])

\* Lines 329-337: relink every other node of the row into its column.
RECURSIVE UncoverRowLinks(_, _, _)
UncoverRowLinks(ds, rowNode, leftLink) ==
    IF leftLink = rowNode THEN ds
    ELSE LET d1 == [ds EXCEPT !.columnSize[ds.columnNode[leftLink]] = @ + 1]
             d2 == [d1 EXCEPT !.lowerNode[d1.upperNode[leftLink]] = leftLink]
             d3 == [d2 EXCEPT !.upperNode[d2.lowerNode[leftLink]] = leftLink]
         IN UncoverRowLinks(d3, rowNode, d3.leftNode[leftLink])

\* Lines 328-338: every row of the column, going up.
RECURSIVE UncoverRows(_, _, _)
UncoverRows(ds, column, rowNode) ==
    IF rowNode = column THEN ds
    ELSE LET d == UncoverRowLinks(ds, rowNode, ds.leftNode[rowNode])
         IN UncoverRows(d, column, d.upperNode[rowNode])

\* Variant: the right neighbour's left pointer is not set back to the column.
uncoverColumnOneWay(ds, column) ==
    LET d0 == UncoverRows(ds, column, ds.upperNode[column])
    IN [d0 EXCEPT !.rightNode[d0.leftNode[column]] = column]

uncoverColumn(ds, column) ==
    LET d0 == UncoverRows(ds, column, ds.upperNode[column])
        d1 == [d0 EXCEPT !.rightNode[d0.leftNode[column]] = column]
    IN [d1 EXCEPT !.leftNode[d1.rightNode[column]] = column]

\* ------------------------------------------------------------------- search
\* Variant: the column selected first is never replaced.
ChooseColumnFirst(ds, loop) ==
    IF loop.currentColumn = headNode THEN loop
    ELSE [chosenColumn |-> loop.chosenColumn,
          currentColumn |-> ds.rightNode[loop.currentColumn]]

\* Variant: a column of equal size replaces the one selected (<= for <).
ChooseColumnLast(ds, loop) ==
    IF loop.currentColumn = headNode THEN loop
    ELSE [chosenColumn |->
              IF ds.columnSize[loop.currentColumn] <= ds.columnSize[loop.chosenColumn]
              THEN loop.currentColumn ELSE loop.chosenColumn,
          currentColumn |-> ds.rightNode[loop.currentColumn]]

\* Lines 374-378: one iteration of the selection loop; loop is the locals
\* chosenColumn and currentColumn. Once the head node is reached nothing
\* changes.
ChooseColumn(ds, loop) ==
    IF loop.currentColumn = headNode THEN loop
    ELSE [chosenColumn |->
              IF ds.columnSize[loop.currentColumn] < ds.columnSize[loop.chosenColumn]
              THEN loop.currentColumn ELSE loop.chosenColumn,
          currentColumn |-> ds.rightNode[loop.currentColumn]]

\* Lines 373-378: the first column of smallest size, going right from the
\* head node; the loop ends within COLUMNS iterations.
chooseColumn(ds) ==
    LET Body(i, loop) == ChooseColumn(ds, loop)
    IN For(Body, 0, COLUMNS,
           [chosenColumn |-> ds.rightNode[headNode],
            currentColumn |-> ds.rightNode[ds.rightNode[headNode]]]).chosenColumn

\* Variant: the values of the search rows are stored counted from 1.
RECURSIVE AssembleSolutionFromOne(_, _, _, _)
AssembleSolutionFromOne(ds, solution, current, i) ==
    IF i > Len(current) THEN solution
    ELSE AssembleSolutionFromOne(ds,
            [solution EXCEPT ![ds.identifier[current[i]][2] * SUDOKU_SIZE
                               + ds.identifier[current[i]][3]] =
                                 ds.identifier[current[i]][1] + 1],
            current, i + 1)

\* Lines 364-366: the rows of CURRENT_SOLUTION written into the solution buffer.
RECURSIVE AssembleSolution(_, _, _, _)
AssembleSolution(ds, solution, current, i) ==
    IF i > Len(current) THEN solution
    ELSE AssembleSolution(ds,
            [solution EXCEPT ![ds.identifier[current[i]][2] * SUDOKU_SIZE
                               + ds.identifier[current[i]][3]] =
                                 ds.identifier[current[i]][1]],
            current, i + 1)


\* ------------------------------------------------------------------- inputs
\* The input file: whether it opens, and its integers in row-major order.
\* The grids are five base grids with at most MaxChanges of the cells
\* ChangeCells overwritten by a value of -1..SUDOKU_SIZE-1:
\*   EmptyTokens      no clue;
\*   FullTokens       a completed valid grid;
\*   SearchTokens     four clues that make search backtrack before it solves;
\*   ExhaustTokens    four pairwise consistent clues with no completion, found
\*                    only after search has backtracked through six levels;
\*   BlockedTokens    fourteen pairwise consistent clues with no completion:
\*                    neither empty cell, (0,3) and (1,2), has a candidate.
\* Besides these, TruncatedFiles are files that end before N^2 integers.
MaxChanges == 1

\* The cells (0,1), (1,2) and (3,3): each is empty in some base grid and a
\* clue in another, and each shares a row, a column or a box with a clue of
\* SearchTokens and of ExhaustTokens.
ChangeCells == {1, 6, 15}
WrittenValues == {0 - 1} \cup Values

EmptyTokens == [k \in 1..SUDOKU_SIZE_SQUARED |-> 0 - 1]
FullTokens ==
    [k \in 1..SUDOKU_SIZE_SQUARED |->
        LET r == (k - 1) \div SUDOKU_SIZE
            c == (k - 1) % SUDOKU_SIZE
        IN (SUDOKU_SIZE_SQUARE_ROOT * (r % SUDOKU_SIZE_SQUARE_ROOT)
              + (r \div SUDOKU_SIZE_SQUARE_ROOT) + c) % SUDOKU_SIZE]
SearchTokens ==
    <<0 - 1, 0 - 1, 0, 0 - 1,
      0 - 1, 0 - 1, 0 - 1, 1,
      3, 0 - 1, 0 - 1, 0,
      0 - 1, 0 - 1, 0 - 1, 0 - 1>>
ExhaustTokens ==
    <<0, 0 - 1, 0 - 1, 0 - 1,
      0 - 1, 0 - 1, 1, 0 - 1,
      0 - 1, 2, 3, 0 - 1,
      0 - 1, 0 - 1, 0 - 1, 0 - 1>>

BlockedTokens ==
    <<0, 3, 1, 0 - 1,
      2, 1, 0 - 1, 3,
      3, 2, 0, 1,
      1, 0, 3, 2>>

Overwritten(base, max) ==
    UNION {{[k \in 1..SUDOKU_SIZE_SQUARED |->
                IF (k - 1) \in B THEN f[k - 1] ELSE base[k]] :
            f \in [B -> WrittenValues]} :
           B \in {S \in SUBSET ChangeCells : Cardinality(S) <= max}}

InputGrids ==
    UNION {Overwritten(base, MaxChanges) :
           base \in {EmptyTokens, FullTokens, SearchTokens, ExhaustTokens,
                     BlockedTokens}}

\* Files that open and hold fewer than N^2 integers: an empty file, and the
\* completed grid without its last integer.
TruncatedLengths == {0, SUDOKU_SIZE_SQUARED - 1}
TruncatedFiles ==
    {[opens |-> TRUE, tokens |-> SubSeq(FullTokens, 1, n)] : n \in TruncatedLengths}

InputFiles ==
    {[opens |-> FALSE, tokens |-> <<>>]}
        \cup {[opens |-> TRUE, tokens |-> g] : g \in InputGrids}
        \cup TruncatedFiles

\* ------------------------------------------------------------ readInputGrid
\* Variant: the integers are stored column by column.
readInputGridByColumn(tokens) ==
    [i \in 0..(SUDOKU_SIZE - 1) |->
        [j \in 0..(SUDOKU_SIZE - 1) |->
            IF j * SUDOKU_SIZE + i + 1 <= Len(tokens)
            THEN tokens[j * SUDOKU_SIZE + i + 1] ELSE 0]]

\* Lines 110-114: operator>> stores 0 once the stream has no further integer.
readInputGrid(tokens) ==
    [i \in 0..(SUDOKU_SIZE - 1) |->
        [j \in 0..(SUDOKU_SIZE - 1) |->
            IF i * SUDOKU_SIZE + j + 1 <= Len(tokens)
            THEN tokens[i * SUDOKU_SIZE + j + 1] ELSE 0]]

\* -------------------------------------------------------------------- state
VARIABLES
    inputFile,          \* the file named on the command line
    pc,                 \* position in sudokuSolver / updateDoublyLinkedList / search
    returnCode,         \* the value sudokuSolver returns, Null while running
    SUDOKU_INPUT, SUDOKU_SOLUTION, CURRENT_SOLUTION,
    leftNode, rightNode, upperNode, lowerNode, columnNode, columnSize, identifier,
    update,             \* locals of updateDoublyLinkedList
    frames,             \* locals of the active invocations of search, innermost last
                        \* (and, as history, the state each was entered in)
    printed,            \* the grids printSolution has written
    failPrinted,        \* "No Solution Found" has been written
    covered,            \* history: columns covered and not yet uncovered, in order
    preloaded,          \* history: the rows updateDoublyLinkedList matched
    writes,             \* history: number of stores into each SUDOKU_SOLUTION cell
    trace,              \* history: the calls of coverColumn and uncoverColumn, in order
    earlier,            \* history: what the earlier executions on this file did
    \* main_algorithm_x, executed on the same file
    matrixPc,           \* position in its sudokuSolver / search
    matrixReturnCode,   \* the value its sudokuSolver returns, Null while running
    sudokuInput, sudokuSolution, exactCoverProblem, currSolution,
    converting,         \* convertSudokuGridToAlgorithmX: the cell inputR * N + inputC
    matrixFrames,       \* locals of the active invocations of its search (and, as
                        \* history, the matrix before the row tried was removed)
    matrixPrinted,      \* the grids its printSolution has written
    matrixFailPrinted,  \* it has written "No Solution Found"
    converted           \* history: the rows convertSudokuGridToAlgorithmX matched

\* the fields cover and uncover assign, and the two fixed when a node is made
structureVars == <<leftNode, rightNode, upperNode, lowerNode, columnSize>>
nodeVars == <<columnNode, identifier>>
vars == <<inputFile, pc, returnCode, SUDOKU_INPUT, SUDOKU_SOLUTION, CURRENT_SOLUTION,
          leftNode, rightNode, upperNode, lowerNode, columnNode, columnSize,
          identifier, update, frames, printed, failPrinted, covered, preloaded, writes,
          trace, earlier, matrixPc, matrixReturnCode, sudokuInput, sudokuSolution,
          exactCoverProblem, currSolution, converting, matrixFrames, matrixPrinted,
          matrixFailPrinted, converted>>
\* the state of main_algorithm_x, and the state of main_dancing_links
matrixVars == <<matrixPc, matrixReturnCode, sudokuInput, sudokuSolution,
                exactCoverProblem, currSolution, converting, matrixFrames,
                matrixPrinted, matrixFailPrinted, converted>>
linksVars == <<inputFile, pc, returnCode, SUDOKU_INPUT, SUDOKU_SOLUTION, CURRENT_SOLUTION,
               leftNode, rightNode, upperNode, lowerNode, columnNode, columnSize,
               identifier, update, frames, printed, failPrinted, covered, preloaded,
               writes, trace, earlier>>

Current ==
    Structure(leftNode, rightNode, upperNode, lowerNode, columnNode, columnSize,
              identifier)

SetStructure(ds) ==
    /\ leftNode' = ds.leftNode
    /\ rightNode' = ds.rightNode
    /\ upperNode' = ds.upperNode
    /\ lowerNode' = ds.lowerNode
    /\ columnSize' = ds.columnSize

\* main_algorithm_x.cpp, lines 32-56: its globals before its sudokuSolver is
\* called: the arrays zero-initialised, the vectors empty.
MatrixInit ==
    /\ matrixPc = "start"
    /\ matrixReturnCode = Null
    /\ sudokuInput = [i \in 0..(SUDOKU_SIZE - 1) |-> [j \in 0..(SUDOKU_SIZE - 1) |-> 0]]
    /\ sudokuSolution = [k \in Cells |-> 0]
    /\ exactCoverProblem = <<>>
    /\ currSolution = <<>>
    /\ converting = 0
    /\ matrixFrames = <<>>
    /\ matrixPrinted = <<>>
    /\ matrixFailPrinted = FALSE
    /\ converted = <<>>

\* The state when updateDoublyLinkedList is about to run (line 476), or when
\* sudokuSolver has returned because the file did not open (lines 468-471).
\* Lines 74-84: the globals are zero-initialised; SUDOKU_SOLUTION = { -1 }
\* sets the first element to -1 and the others to 0. Lines 474-475 build the
\* structure, which does not depend on the input.
Init ==
    /\ returnCode \in {Null, 0 - 1}
    /\ LET st == IF returnCode = Null THEN Built ELSE EmptyHeap
       IN /\ leftNode = st.leftNode
          /\ rightNode = st.rightNode
          /\ upperNode = st.upperNode
          /\ lowerNode = st.lowerNode
          /\ columnSize = st.columnSize
          /\ columnNode = st.columnNode
          /\ identifier = st.identifier
    /\ inputFile \in {f \in InputFiles : f.opens <=> returnCode = Null}
    /\ pc = IF inputFile.opens THEN "update" ELSE "exit"
    /\ SUDOKU_INPUT = IF inputFile.opens THEN readInputGrid(inputFile.tokens)
                      ELSE [i \in 0..(SUDOKU_SIZE - 1) |->
                               [j \in 0..(SUDOKU_SIZE - 1) |-> 0]]
    /\ SUDOKU_SOLUTION = [k \in Cells |-> IF k = 0 THEN 0 - 1 ELSE 0]
    /\ CURRENT_SOLUTION = <<>>
    /\ update = [columnNode |-> Null, rowNode |-> Null, rightLink |-> Null]
    /\ frames = <<>>
    /\ printed = <<>>
    /\ failPrinted = FALSE
    /\ covered = <<>>
    /\ preloaded = <<>>
    /\ writes = [k \in Cells |-> 0]
    /\ trace = <<>>
    /\ earlier = <<>>
    /\ MatrixInit

\* ---------------------------------------------------- updateDoublyLinkedList
\* Line 264: the row node stands for the value given for its cell.
MatchesInput(ds, input, rowNode) ==
    ds.identifier[rowNode][1] =
        input[ds.identifier[rowNode][2]][ds.identifier[rowNode][3]]

\* Line 260, loop entry: the first column right of the head node.
UpdateBegin ==
    /\ pc = "update"
    /\ update' = [columnNode |-> rightNode[headNode], rowNode |-> Null,
                  rightLink |-> Null]
    /\ pc' = "update_column"
    /\ UNCHANGED <<matrixVars, nodeVars, inputFile, earlier, returnCode, SUDOKU_INPUT, SUDOKU_SOLUTION,
                   CURRENT_SOLUTION, structureVars, frames, printed, failPrinted,
                   covered, trace, preloaded, writes>>

\* Variant: when the head node is reached the traversal starts over.
UpdateColumnStartsOver ==
    /\ pc = "update_column"
    /\ IF update.columnNode # headNode
       THEN /\ update' = [update EXCEPT !.rowNode = lowerNode[update.columnNode]]
            /\ pc' = "update_row"
       ELSE /\ pc' = "update"
            /\ UNCHANGED update
    /\ UNCHANGED <<matrixVars, nodeVars, inputFile, earlier, returnCode, SUDOKU_INPUT, SUDOKU_SOLUTION,
                   CURRENT_SOLUTION, structureVars, frames, printed, failPrinted,
                   covered, trace, preloaded, writes>>

\* Lines 260-261: the outer loop test; the inner loop starts below the column
\* node. When the head node is reached the function returns and search() is
\* called (line 479).
UpdateColumn ==
    /\ pc = "update_column"
    /\ IF update.columnNode # headNode
       THEN /\ update' = [update EXCEPT !.rowNode = lowerNode[update.columnNode]]
            /\ pc' = "update_row"
       ELSE /\ pc' = "search"
            /\ UNCHANGED update
    /\ UNCHANGED <<matrixVars, nodeVars, inputFile, earlier, returnCode, SUDOKU_INPUT, SUDOKU_SOLUTION,
                   CURRENT_SOLUTION, structureVars, frames, printed, failPrinted,
                   covered, trace, preloaded, writes>>

\* Lines 261-271: the inner loop test and one row node: the end of the column,
\* a row node that does not match, or a match (the value is stored and the
\* column being traversed is covered).
UpdateRow ==
    /\ pc = "update_row"
    /\ LET rowNode == update.rowNode
           cell == identifier[rowNode][2] * SUDOKU_SIZE + identifier[rowNode][3]
       IN IF rowNode = update.columnNode
          THEN /\ update' = [update EXCEPT !.columnNode = rightNode[update.columnNode]]
               /\ pc' = "update_column"
               /\ UNCHANGED <<SUDOKU_SOLUTION, structureVars, covered, trace, preloaded,
                              writes>>
          ELSE IF MatchesInput(Current, SUDOKU_INPUT, rowNode)
          THEN /\ SUDOKU_SOLUTION' =
                      [SUDOKU_SOLUTION EXCEPT ![cell] =
                          SUDOKU_INPUT[identifier[rowNode][2]][identifier[rowNode][3]]]
               /\ writes' = [writes EXCEPT ![cell] = @ + 1]
               /\ preloaded' = Append(preloaded, rowNode)
               /\ SetStructure(coverColumn(Current, update.columnNode))
               /\ covered' = Append(covered, update.columnNode)
               /\ trace' = Append(trace, <<"cover", update.columnNode>>)
               /\ update' = [update EXCEPT !.rightLink = rightNode'[rowNode]]
               /\ pc' = "update_cover"
          ELSE /\ update' = [update EXCEPT !.rowNode = lowerNode[rowNode]]
               /\ pc' = "update_row"
               /\ UNCHANGED <<SUDOKU_SOLUTION, structureVars, covered, trace, preloaded,
                              writes>>
    /\ UNCHANGED <<matrixVars, nodeVars, inputFile, earlier, returnCode, SUDOKU_INPUT, CURRENT_SOLUTION, frames,
                   printed, failPrinted>>

\* Variant: the loop over the other nodes of the matched row ends one node
\* early.
UpdateCoverEndsEarly ==
    /\ pc = "update_cover"
    /\ IF rightNode[update.rightLink] # update.rowNode
       THEN /\ SetStructure(coverColumn(Current, columnNode[update.rightLink]))
            /\ covered' = Append(covered, columnNode[update.rightLink])
            /\ trace' = Append(trace, <<"cover", columnNode[update.rightLink]>>)
            /\ update' = [update EXCEPT !.rightLink = rightNode'[update.rightLink]]
            /\ pc' = "update_cover"
       ELSE /\ update' = [update EXCEPT !.rowNode = lowerNode[update.rowNode]]
            /\ pc' = "update_row"
            /\ UNCHANGED <<structureVars, covered, trace>>
    /\ UNCHANGED <<matrixVars, nodeVars, inputFile, earlier, returnCode, SUDOKU_INPUT, SUDOKU_SOLUTION,
                   CURRENT_SOLUTION, frames, printed, failPrinted, preloaded, writes>>

\* Lines 272-274: one iteration of the loop over the other nodes of the matched
\* row; when it ends the inner loop moves to the next row node.
UpdateCover ==
    /\ pc = "update_cover"
    /\ IF update.rightLink # update.rowNode
       THEN /\ SetStructure(coverColumn(Current, columnNode[update.rightLink]))
            /\ covered' = Append(covered, columnNode[update.rightLink])
            /\ trace' = Append(trace, <<"cover", columnNode[update.rightLink]>>)
            /\ update' = [update EXCEPT !.rightLink = rightNode'[update.rightLink]]
            /\ pc' = "update_cover"
       ELSE /\ update' = [update EXCEPT !.rowNode = lowerNode[update.rowNode]]
            /\ pc' = "update_row"
            /\ UNCHANGED <<structureVars, covered, trace>>
    /\ UNCHANGED <<matrixVars, nodeVars, inputFile, earlier, returnCode, SUDOKU_INPUT, SUDOKU_SOLUTION,
                   CURRENT_SOLUTION, frames, printed, failPrinted, preloaded, writes>>

\* ------------------------------------------------------------------- search
Top == frames[Len(frames)]
SetTop(f) == [frames EXCEPT ![Len(frames)] = f]
Pop(q) == SubSeq(q, 1, Len(q) - 1)
Back(q) == q[Len(q)]

\* The column is taken off the history of covered columns (its last entry).
RECURSIVE RemoveLast(_, _)
RemoveLast(q, column) ==
    IF q = <<>> THEN q
    ELSE IF Back(q) = column THEN Pop(q)
    ELSE Append(RemoveLast(Pop(q), column), Back(q))

\* Lines 363-378: entry of an invocation. With an empty column ring the rows
\* of CURRENT_SOLUTION are stored, the grid is printed and false is returned;
\* otherwise the column of smallest size is selected.
SearchEnter ==
    /\ pc = "search"
    /\ IF rightNode[headNode] = headNode
       THEN /\ SUDOKU_SOLUTION' = AssembleSolution(Current, SUDOKU_SOLUTION, CURRENT_SOLUTION, 1)
            /\ writes' = [k \in Cells |->
                             writes[k] + Cardinality(
                                 {i \in 1..Len(CURRENT_SOLUTION) :
                                     identifier[CURRENT_SOLUTION[i]][2] * SUDOKU_SIZE
                                       + identifier[CURRENT_SOLUTION[i]][3] = k})]
            /\ printed' = Append(printed, SUDOKU_SOLUTION')
            /\ pc' = "return_false"
            /\ UNCHANGED frames
       ELSE /\ frames' = Append(frames, [chosenColumn |-> chooseColumn(Current),
                                         rowNode |-> Null, link |-> Null,
                                         entry |-> [structure |-> structureVars,
                                                    solution |-> CURRENT_SOLUTION]])
            /\ pc' = "cover_chosen"
            /\ UNCHANGED <<SUDOKU_SOLUTION, writes, printed>>
    /\ UNCHANGED <<matrixVars, nodeVars, inputFile, earlier, returnCode, SUDOKU_INPUT, CURRENT_SOLUTION,
                   structureVars, update, failPrinted, covered, trace, preloaded>>

\* Variant: in the outermost invocation the row loop starts at either end
\* of the list of the selected column.
CoverChosenAnyEnd ==
    /\ pc = "cover_chosen"
    /\ SetStructure(coverColumn(Current, Top.chosenColumn))
    /\ covered' = Append(covered, Top.chosenColumn)
    /\ trace' = Append(trace, <<"cover", Top.chosenColumn>>)
    /\ \E first \in {lowerNode'[Top.chosenColumn]}
                       \cup (IF Len(frames) = 1
                             THEN {upperNode'[Top.chosenColumn]} ELSE {}) :
          frames' = SetTop([Top EXCEPT !.rowNode = first])
    /\ pc' = "row_loop"
    /\ UNCHANGED <<matrixVars, nodeVars, inputFile, earlier, returnCode, SUDOKU_INPUT, SUDOKU_SOLUTION,
                   CURRENT_SOLUTION, update, printed, failPrinted, preloaded, writes>>

\* Lines 381 and 384 (loop entry): the selected column is covered and the row
\* loop starts below it.
CoverChosen ==
    /\ pc = "cover_chosen"
    /\ SetStructure(coverColumn(Current, Top.chosenColumn))
    /\ covered' = Append(covered, Top.chosenColumn)
    /\ trace' = Append(trace, <<"cover", Top.chosenColumn>>)
    /\ frames' = SetTop([Top EXCEPT !.rowNode = lowerNode'[Top.chosenColumn]])
    /\ pc' = "row_loop"
    /\ UNCHANGED <<matrixVars, nodeVars, inputFile, earlier, returnCode, SUDOKU_INPUT, SUDOKU_SOLUTION,
                   CURRENT_SOLUTION, update, printed, failPrinted, preloaded, writes>>

\* Lines 384-391: the row loop test; a row is pushed and the loop over its
\* other nodes starts, or the rows are exhausted.
TryRow ==
    /\ pc = "row_loop"
    /\ IF Top.rowNode # Top.chosenColumn
       THEN /\ CURRENT_SOLUTION' = Append(CURRENT_SOLUTION, Top.rowNode)
            /\ frames' = SetTop([Top EXCEPT !.link = rightNode[Top.rowNode]])
            /\ pc' = IF rightNode[Top.rowNode] # Top.rowNode
                     THEN "cover_row" ELSE "search"
       ELSE /\ pc' = "uncover_chosen"
            /\ UNCHANGED <<CURRENT_SOLUTION, frames>>
    /\ UNCHANGED <<matrixVars, nodeVars, inputFile, earlier, returnCode, SUDOKU_INPUT, SUDOKU_SOLUTION,
                   structureVars, update, printed, failPrinted, covered, trace, preloaded,
                   writes>>

\* Variant: the column of the row node itself is covered for each of the other
\* nodes of the row.
CoverRowOwnColumn ==
    /\ pc = "cover_row"
    /\ SetStructure(coverColumn(Current, columnNode[Top.rowNode]))
    /\ covered' = Append(covered, columnNode[Top.rowNode])
    /\ trace' = Append(trace, <<"cover", columnNode[Top.rowNode]>>)
    /\ frames' = SetTop([Top EXCEPT !.link = rightNode'[Top.link]])
    /\ pc' = IF rightNode'[Top.link] # Top.rowNode THEN "cover_row" ELSE "search"
    /\ UNCHANGED <<matrixVars, nodeVars, inputFile, earlier, returnCode, SUDOKU_INPUT, SUDOKU_SOLUTION,
                   CURRENT_SOLUTION, update, printed, failPrinted, preloaded, writes>>

\* Lines 391-396: one column of the tried row is covered; after the last one
\* search() is called.
CoverRow ==
    /\ pc = "cover_row"
    /\ SetStructure(coverColumn(Current, columnNode[Top.link]))
    /\ covered' = Append(covered, columnNode[Top.link])
    /\ trace' = Append(trace, <<"cover", columnNode[Top.link]>>)
    /\ frames' = SetTop([Top EXCEPT !.link = rightNode'[Top.link]])
    /\ pc' = IF rightNode'[Top.link] # Top.rowNode THEN "cover_row" ELSE "search"
    /\ UNCHANGED <<matrixVars, nodeVars, inputFile, earlier, returnCode, SUDOKU_INPUT, SUDOKU_SOLUTION,
                   CURRENT_SOLUTION, update, printed, failPrinted, preloaded, writes>>

\* Variant: the outermost invocation also uncovers the column that was
\* covered before its own.
UncoverChosenAndOneMore ==
    /\ pc = "uncover_chosen"
    /\ IF Len(frames) = 1 /\ Len(covered) > 1
       THEN /\ SetStructure(uncoverColumn(uncoverColumn(Current, Top.chosenColumn),
                                          covered[Len(covered) - 1]))
            /\ covered' = Pop(Pop(covered))
            /\ trace' = Append(Append(trace, <<"uncover", Top.chosenColumn>>),
                                <<"uncover", covered[Len(covered) - 1]>>)
       ELSE /\ SetStructure(uncoverColumn(Current, Top.chosenColumn))
            /\ covered' = RemoveLast(covered, Top.chosenColumn)
            /\ trace' = Append(trace, <<"uncover", Top.chosenColumn>>)
    /\ IF Len(frames) = 1
       THEN /\ frames' = <<>>
            /\ pc' = "no_solution"
       ELSE LET caller == frames[Len(frames) - 1]
                back == Back(CURRENT_SOLUTION)
            IN /\ frames' = Append(SubSeq(frames, 1, Len(frames) - 2),
                                   [caller EXCEPT
                                      !.chosenColumn = columnNode[back],
                                      !.link = leftNode'[back]])
               /\ pc' = IF leftNode'[back] # back THEN "uncover_row" ELSE "pop_row"
    /\ UNCHANGED <<matrixVars, nodeVars, inputFile, earlier, returnCode, SUDOKU_INPUT, SUDOKU_SOLUTION,
                   CURRENT_SOLUTION, update, printed, failPrinted, preloaded, writes>>

\* Lines 414-416 and, in the caller, 396-405: the selected column is uncovered
\* and true is returned. The caller re-reads its column from the last row of
\* CURRENT_SOLUTION and starts the loop over that row's other nodes, going
\* left; sudokuSolver (line 479) reports the failure.
UncoverChosen ==
    /\ pc = "uncover_chosen"
    /\ SetStructure(uncoverColumn(Current, Top.chosenColumn))
    /\ covered' = RemoveLast(covered, Top.chosenColumn)
    /\ trace' = Append(trace, <<"uncover", Top.chosenColumn>>)
    /\ IF Len(frames) = 1
       THEN /\ frames' = <<>>
            /\ pc' = "no_solution"
       ELSE LET caller == frames[Len(frames) - 1]
                back == Back(CURRENT_SOLUTION)
            IN /\ frames' = Append(SubSeq(frames, 1, Len(frames) - 2),
                                   [caller EXCEPT
                                      !.chosenColumn = columnNode[back],
                                      !.link = leftNode'[back]])
               /\ pc' = IF leftNode'[back] # back THEN "uncover_row" ELSE "pop_row"
    /\ UNCHANGED <<matrixVars, nodeVars, inputFile, earlier, returnCode, SUDOKU_INPUT, SUDOKU_SOLUTION,
                   CURRENT_SOLUTION, update, printed, failPrinted, preloaded, writes>>

\* Variant: the loop over the failed row goes right (rightNode for leftNode).
UncoverRowGoingRight ==
    /\ pc = "uncover_row"
    /\ SetStructure(uncoverColumn(Current, columnNode[Top.link]))
    /\ covered' = RemoveLast(covered, columnNode[Top.link])
    /\ trace' = Append(trace, <<"uncover", columnNode[Top.link]>>)
    /\ frames' = SetTop([Top EXCEPT !.link = rightNode'[Top.link]])
    /\ pc' = IF rightNode'[Top.link] # Back(CURRENT_SOLUTION)
             THEN "uncover_row" ELSE "pop_row"
    /\ UNCHANGED <<matrixVars, nodeVars, inputFile, earlier, returnCode, SUDOKU_INPUT, SUDOKU_SOLUTION,
                   CURRENT_SOLUTION, update, printed, failPrinted, preloaded, writes>>

\* Lines 405-407: one column of the failed row is uncovered.
UncoverRow ==
    /\ pc = "uncover_row"
    /\ SetStructure(uncoverColumn(Current, columnNode[Top.link]))
    /\ covered' = RemoveLast(covered, columnNode[Top.link])
    /\ trace' = Append(trace, <<"uncover", columnNode[Top.link]>>)
    /\ frames' = SetTop([Top EXCEPT !.link = leftNode'[Top.link]])
    /\ pc' = IF leftNode'[Top.link] # Back(CURRENT_SOLUTION)
             THEN "uncover_row" ELSE "pop_row"
    /\ UNCHANGED <<matrixVars, nodeVars, inputFile, earlier, returnCode, SUDOKU_INPUT, SUDOKU_SOLUTION,
                   CURRENT_SOLUTION, update, printed, failPrinted, preloaded, writes>>

\* Variant: the row loop ends after the first row that fails.
PopRowEndsLoop ==
    /\ pc = "pop_row"
    /\ CURRENT_SOLUTION' = Pop(CURRENT_SOLUTION)
    /\ frames' = SetTop([Top EXCEPT !.rowNode = Top.chosenColumn])
    /\ pc' = "row_loop"
    /\ UNCHANGED <<matrixVars, nodeVars, inputFile, earlier, returnCode, SUDOKU_INPUT, SUDOKU_SOLUTION,
                   structureVars, update, printed, failPrinted, covered, trace, preloaded,
                   writes>>

\* Lines 410 and 384 (loop step): the failed row is popped and the row loop
\* moves down the column.
PopRow ==
    /\ pc = "pop_row"
    /\ CURRENT_SOLUTION' = Pop(CURRENT_SOLUTION)
    /\ frames' = SetTop([Top EXCEPT !.rowNode = lowerNode[Top.rowNode]])
    /\ pc' = "row_loop"
    /\ UNCHANGED <<matrixVars, nodeVars, inputFile, earlier, returnCode, SUDOKU_INPUT, SUDOKU_SOLUTION,
                   structureVars, update, printed, failPrinted, covered, trace, preloaded,
                   writes>>

\* Variant: the caller does not test what search() returned and goes on to
\* line 402.
ReturnFalseIgnored ==
    /\ pc = "return_false"
    /\ IF frames # <<>>
       THEN /\ frames' = SetTop([Top EXCEPT
                                   !.chosenColumn = columnNode[Back(CURRENT_SOLUTION)],
                                   !.link = leftNode[Back(CURRENT_SOLUTION)]])
            /\ pc' = "uncover_row"
            /\ UNCHANGED returnCode
       ELSE /\ returnCode' = 0
            /\ pc' = "exit"
            /\ UNCHANGED frames
    /\ UNCHANGED <<matrixVars, nodeVars, inputFile, earlier, SUDOKU_INPUT, SUDOKU_SOLUTION, CURRENT_SOLUTION,
                   structureVars, update, printed, failPrinted, covered, trace, preloaded,
                   writes>>

\* Lines 368 and 396-398: false is returned through every active invocation;
\* sudokuSolver then returns 0 (line 483).
ReturnFalse ==
    /\ pc = "return_false"
    /\ IF frames # <<>>
       THEN /\ frames' = Pop(frames)
            /\ pc' = "return_false"
            /\ UNCHANGED returnCode
       ELSE /\ returnCode' = 0
            /\ pc' = "exit"
            /\ UNCHANGED frames
    /\ UNCHANGED <<matrixVars, nodeVars, inputFile, earlier, SUDOKU_INPUT, SUDOKU_SOLUTION, CURRENT_SOLUTION,
                   structureVars, update, printed, failPrinted, covered, trace, preloaded,
                   writes>>

\* Lines 479-483: search() returned true.
ReportNoSolution ==
    /\ pc = "no_solution"
    /\ failPrinted' = TRUE
    /\ returnCode' = 0
    /\ pc' = "exit"
    /\ UNCHANGED <<matrixVars, nodeVars, inputFile, earlier, SUDOKU_INPUT, SUDOKU_SOLUTION, CURRENT_SOLUTION,
                   structureVars, update, frames, printed, covered, trace, preloaded, writes>>

Next ==
    \/ UpdateBegin
    \/ UpdateColumn
    \/ UpdateRow
    \/ UpdateCover
    \/ SearchEnter
    \/ CoverChosen
    \/ TryRow
    \/ CoverRow
    \/ UncoverChosen
    \/ UncoverRow
    \/ PopRow
    \/ ReturnFalse
    \/ ReportNoSolution

Spec == Init /\ [][Next]_vars

\* The program is executed once more on the same file. It is a new process:
\* every global starts as in lines 74-84 and the structure is built anew
\* (lines 465-475). What the execution that ended did is kept for comparison.
Rerun ==
    /\ pc = "exit"
    /\ earlier = <<>>
    /\ earlier' = <<[trace |-> trace, printed |-> printed,
                     failPrinted |-> failPrinted, returnCode |-> returnCode,
                     solution |-> SUDOKU_SOLUTION]>>
    /\ LET st == IF inputFile.opens THEN Built ELSE EmptyHeap
       IN /\ SetStructure(st)
          /\ columnNode' = st.columnNode
          /\ identifier' = st.identifier
    /\ returnCode' = IF inputFile.opens THEN Null ELSE 0 - 1
    /\ pc' = IF inputFile.opens THEN "update" ELSE "exit"
    /\ SUDOKU_INPUT' = IF inputFile.opens THEN readInputGrid(inputFile.tokens)
                       ELSE [i \in 0..(SUDOKU_SIZE - 1) |->
                                [j \in 0..(SUDOKU_SIZE - 1) |-> 0]]
    /\ SUDOKU_SOLUTION' = [k \in Cells |-> IF k = 0 THEN 0 - 1 ELSE 0]
    /\ CURRENT_SOLUTION' = <<>>
    /\ update' = [columnNode |-> Null, rowNode |-> Null, rightLink |-> Null]
    /\ frames' = <<>>
    /\ printed' = <<>>
    /\ failPrinted' = FALSE
    /\ covered' = <<>>
    /\ preloaded' = <<>>
    /\ writes' = [k \in Cells |-> 0]
    /\ trace' = <<>>
    /\ UNCHANGED <<inputFile, matrixVars>>

TwiceNext == Next \/ Rerun

\* Two executions of the program on one file, one after the other.
TwiceSpec == Init /\ [][TwiceNext]_vars

\* sudokuSolver has not returned: some statement remains to be executed.
\* Every action is guarded by its value of pc alone and changes pc or the
\* locals it steps, so a step of Next that changes vars is possible exactly
\* in these states.
Running == pc # "exit"

\* sudokuSolver runs in one thread and nothing it does waits on anything: a
\* statement that can be executed is executed. This is weak fairness of Next,
\* WF_vars(Next), with ENABLED <<Next>>_vars written as Running.
FairSpec == Spec /\ ([]<>(~Running) \/ []<><<Next>>_vars)

\* ------------------------------------------------------------- observations
\* The file opened, so the structure was built and the solver ran.
Opened == inputFile.opens
\* search reported Solved: it found the column ring empty and printed a grid.
Solved == printed # <<>>
\* sudokuSolver reported that search exhausted every branch.
Exhausted == failPrinted

Range(s) == {s[i] : i \in DOMAIN s}

\* The nodes met from node from, following link, before node to is met
\* (at most fuel of them).
RECURSIVE Walk(_, _, _, _)
Walk(link, from, to, fuel) ==
    IF from = to \/ fuel = 0 THEN <<>>
    ELSE <<from>> \o Walk(link, link[from], to, fuel - 1)

\* The column ring of structure ds, from the head node going right.
RingStep(ds, loop) ==
    IF loop.at = headNode THEN loop
    ELSE [nodes |-> Append(loop.nodes, loop.at), at |-> ds.rightNode[loop.at]]
Ring(ds) ==
    LET Body(i, loop) == RingStep(ds, loop)
    IN For(Body, 0, COLUMNS + 1,
           [nodes |-> <<>>, at |-> ds.rightNode[headNode]]).nodes

\* The active column ring.
ActiveColumns == Ring(Current)
\* The row nodes in the vertical list of column c, going down (a column is
\* built with SUDOKU_SIZE of them).
ColumnList(c) == Walk(lowerNode, lowerNode[c], c, SUDOKU_SIZE + 1)
\* The nodes of the horizontal ring of row node n, n first, going right (a
\* row is built with 4 of them).
RowRing(n) == <<n>> \o Walk(rightNode, rightNode[n], n, 4)
\* The columns the row of node n lies in, in the order search covers them.
RowColumns(n) == [i \in DOMAIN RowRing(n) |-> columnNode[RowRing(n)[i]]]
\* The row nodes that can still be reached from an active column.
LiveRowNodes == UNION {Range(ColumnList(c)) : c \in Range(ActiveColumns)}

\* The grid: the clue at cell k, and the cells that share a unit.
Clue(k) == SUDOKU_INPUT[k \div SUDOKU_SIZE][k % SUDOKU_SIZE]
CellRow(k) == k \div SUDOKU_SIZE
CellColumn(k) == k % SUDOKU_SIZE
CellBox(k) ==
    SUDOKU_SIZE_SQUARE_ROOT * (CellRow(k) \div SUDOKU_SIZE_SQUARE_ROOT)
        + (CellColumn(k) \div SUDOKU_SIZE_SQUARE_ROOT)
SameUnit(k, m) ==
    CellRow(k) = CellRow(m) \/ CellColumn(k) = CellColumn(m) \/ CellBox(k) = CellBox(m)
Units ==
    {{k \in Cells : CellRow(k) = u} : u \in Values}
        \cup {{k \in Cells : CellColumn(k) = u} : u \in Values}
        \cup {{k \in Cells : CellBox(k) = u} : u \in Values}

\* No two clues with the same value share a row, a column or a box.
PairwiseConsistent ==
    \A k, m \in Cells :
        (k # m /\ Clue(k) # 0 - 1 /\ Clue(k) = Clue(m)) => ~SameUnit(k, m)

\* Some completed grid agrees with grid on its filled cells and has no value
\* twice in a unit; the cells below k are filled already.
RECURSIVE Completes(_, _)
Completes(grid, k) ==
    IF k = SUDOKU_SIZE_SQUARED THEN TRUE
    ELSE \E v \in (IF grid[k] = 0 - 1 THEN Values ELSE {grid[k]}) :
            /\ \A m \in Cells : (m # k /\ SameUnit(m, k)) => grid[m] # v
            /\ Completes([grid EXCEPT ![k] = v], k + 1)

HasCompletion == Completes([k \in Cells |-> Clue(k)], 0)

\* ------------------------------------------------------------------- claims
\* C1: when search reports Solved the column ring is empty and the committed
\* rows (the rows preload matched, then the rows of CURRENT_SOLUTION) form an
\* exact cover: every committed row lies in the columns of the four
\* constraints of its (value, row, column), and every constraint column
\* holds exactly one committed row.
Committed == preloaded \o CURRENT_SOLUTION
\* The column nodes (numbered 1 to 4N^2 in construction order) of the four
\* constraints the identifier of row node n stands for.
ConstraintColumns(n) ==
    LET v == identifier[n][1]
        cell == identifier[n][2] * SUDOKU_SIZE + identifier[n][3]
        N2 == SUDOKU_SIZE * SUDOKU_SIZE
    IN {1 + cell,
        1 + N2 + CellRow(cell) * SUDOKU_SIZE + v,
        1 + 2 * N2 + CellColumn(cell) * SUDOKU_SIZE + v,
        1 + 3 * N2 + CellBox(cell) * SUDOKU_SIZE + v}

SolvedIsExactCover ==
    Solved =>
        /\ rightNode[headNode] = headNode
        /\ \A k \in DOMAIN Committed :
              Range(RowColumns(Committed[k])) = ConstraintColumns(Committed[k])
        /\ \A c \in ColumnNodes :
              Cardinality({k \in DOMAIN Committed :
                              c \in Range(RowColumns(Committed[k]))}) = 1

SolvedIsExactCoverWitness ==
    Solved /\ preloaded # <<>> /\ CURRENT_SOLUTION # <<>>

\* C2: when search reports Solved every cell of the printed grid has been
\* stored exactly once (by preload or by the assembly of CURRENT_SOLUTION),
\* holds a value of 0..N-1, and every row, column and box holds every value.
SolvedGridIsValid ==
    Solved =>
        /\ \A k \in Cells : writes[k] = 1 /\ printed[1][k] \in Values
        /\ \A u \in Units : {printed[1][k] : k \in u} = Values

SolvedGridIsValidWitness ==
    /\ Solved
    /\ pc = "exit"
    /\ \E k \in Cells : Clue(k) # 0 - 1
    /\ \E k \in Cells : Clue(k) = 0 - 1

\* C3: when search reports Solved the printed grid holds every given clue.
CluesPreserved ==
    Solved => \A k \in Cells : Clue(k) # 0 - 1 => printed[1][k] = Clue(k)

\* C4: for pairwise consistent clues search reports Solved exactly when a
\* completed grid agreeing with the clues exists, and Exhausted only when
\* none exists; the run ends with one of the two reports, and with Solved
\* when there is no clue.
ConsistentCluesDecided ==
    (Opened /\ PairwiseConsistent) =>
        /\ Solved => HasCompletion
        /\ Exhausted => ~HasCompletion
        /\ pc = "exit" => (Solved \/ Exhausted)
        /\ (pc = "exit" /\ \A k \in Cells : Clue(k) = 0 - 1) => Solved

ConsistentCluesDecidedWitness ==
    /\ Opened
    /\ PairwiseConsistent
    /\ pc = "exit"
    /\ Exhausted
    /\ CURRENT_SOLUTION = <<>>
    /\ Cardinality({k \in Cells : Clue(k) # 0 - 1}) = 4

\* C5: for clues of which two with the same value share a row, a column or a
\* box, search never reports Solved.
ContradictionNeverSolved ==
    (Opened /\ ~PairwiseConsistent) => ~Solved

\* C6: in every state of preload and search, covering a column of the active
\* ring and uncovering it at once leaves every pointer and every columnSize
\* as before; so does covering the columns of a live row in the order search
\* covers them and uncovering them in the reverse order.
\* Lines 391-393 and 405-407 applied to structure ds: the columns of the
\* other nodes of the row are covered going right, and uncovered going left.
RECURSIVE CoverRight(_, _, _)
CoverRight(ds, rowNode, rightLink) ==
    IF rightLink = rowNode THEN ds
    ELSE CoverRight(coverColumn(ds, ds.columnNode[rightLink]), rowNode,
                    ds.rightNode[rightLink])

RECURSIVE UncoverLeft(_, _, _)
UncoverLeft(ds, rowNode, leftLink) ==
    IF leftLink = rowNode THEN ds
    ELSE UncoverLeft(uncoverColumn(ds, ds.columnNode[leftLink]), rowNode,
                     ds.leftNode[leftLink])

\* The law at structure ds, for every active column c and every row node n of
\* its list. With d the structure coverColumn(c) leaves, uncoverColumn(c)
\* returns d to ds, and covering then uncovering the other columns of the row
\* of n returns d to d: so the whole sequence search runs for n returns to ds.
RoundTrip(ds) ==
    \A c \in Range(Ring(ds)) :
        LET d == coverColumn(ds, c)
        IN /\ uncoverColumn(d, c) = ds
           /\ \A n \in Range(Walk(ds.lowerNode, ds.lowerNode[c], c,
                                  SUDOKU_SIZE + 1)) :
                 UncoverLeft(CoverRight(d, n, d.rightNode[n]), n, d.leftNode[n]) = d

\* The structure changes only when a column is covered or uncovered, so the
\* law holds in every state if it holds for the structure as constructed and
\* for the structure every step that changes it leaves behind.
CoverUncoverRoundTrip ==
    /\ (pc = "update" => RoundTrip(Current))
    /\ [][Current' # Current => RoundTrip(Current')]_vars

CoverUncoverRoundTripWitness ==
    /\ pc = "cover_row"
    /\ Len(frames) > 1
    /\ Len(ActiveColumns) > 4
    /\ \E c \in Range(ActiveColumns) : Len(ColumnList(c)) > 1
    /\ \E c \in Range(ActiveColumns) : coverColumn(Current, c) # Current

\* C7: after construction and after every coverColumn and uncoverColumn, the
\* columnSize of every column is the number of row nodes in its vertical
\* list, and is not negative.
ColumnSizeCountsRows ==
    Opened =>
        \A c \in ColumnNodes :
            columnSize[c] >= 0 /\ columnSize[c] = Len(ColumnList(c))

ColumnSizeCountsRowsWitness ==
    /\ pc = "pop_row"
    /\ \E c \in Range(ActiveColumns) : columnSize[c] = 0
    /\ \E c \in Range(ActiveColumns) : columnSize[c] > 1

\* C8: every uncoverColumn of search is applied to the column covered last
\* among the columns still covered: the columns of a tried row are uncovered
\* in the reverse of the order they were covered, and when they all are, the
\* column search branched on is the last one still covered by this invocation.
UncoverIsLastCovered ==
    /\ pc = "uncover_row" =>
          covered # <<>> /\ Back(covered) = columnNode[Top.link]
    /\ pc = "pop_row" =>
          covered # <<>> /\ Back(covered) = columnNode[Back(CURRENT_SOLUTION)]
    /\ pc = "uncover_chosen" =>
          covered # <<>> /\ Back(covered) = Top.chosenColumn
    /\ pc \in {"uncover_row", "pop_row", "uncover_chosen"} =>
          Len(covered) > 4 * Len(preloaded)

UncoverIsLastCoveredWitness ==
    /\ pc = "uncover_chosen"
    /\ Len(frames) = 1
    /\ CURRENT_SOLUTION = <<>>
    /\ Len(covered) = 4 * Len(preloaded) + 1
    /\ \E c \in Range(ActiveColumns) : columnSize[c] > 0

\* C9: the column search selects has a columnSize no larger than that of any
\* active column, and every active column left of it (nearer the head node,
\* going right) has a larger one.
ChosenColumnIsFirstMinimum ==
    pc = "cover_chosen" =>
        LET ring == ActiveColumns
            chosen == Top.chosenColumn
        IN \E p \in DOMAIN ring :
              /\ ring[p] = chosen
              /\ \A q \in DOMAIN ring :
                    /\ columnSize[chosen] <= columnSize[ring[q]]
                    /\ q < p => columnSize[ring[q]] > columnSize[chosen]

ChosenColumnIsFirstMinimumWitness ==
    /\ pc = "cover_chosen"
    /\ LET ring == ActiveColumns
           chosen == Top.chosenColumn
       IN /\ chosen # ring[1]
          /\ \E q \in DOMAIN ring :
                ring[q] # chosen /\ columnSize[ring[q]] = columnSize[chosen]
          /\ \E q \in DOMAIN ring : columnSize[ring[q]] > columnSize[chosen]

\* C10: after construction the ring holds 4N^2 columns of columnSize N; there
\* are N^3 rows, each a horizontal ring of 4 nodes, the row created i-th with
\* identifier (i mod N, i div N^2, (i div N) mod N) = (v, r, c) and its nodes
\* in the columns cell (r, c), row r value v, column c value v and box value v
\* (the families in this order along the ring), each node in the vertical
\* list of its column.
RowRings == {Range(RowRing(n)) : n \in RowNodes}
ConstructedShape ==
    pc = "update" =>
        LET ring == ActiveColumns
            N2 == SUDOKU_SIZE * SUDOKU_SIZE
        IN /\ Len(ring) = 4 * N2
           /\ Range(ring) = ColumnNodes
           /\ \A c \in ColumnNodes : columnSize[c] = SUDOKU_SIZE
           /\ Cardinality(RowRings) = SUDOKU_SIZE * N2
           /\ \A i \in 0..(SUDOKU_SIZE * N2 - 1) :
                 LET n == COLUMNS + 1 + 4 * i
                     v == i % SUDOKU_SIZE
                     r == i \div N2
                     c == (i \div SUDOKU_SIZE) % SUDOKU_SIZE
                     b == CellBox(r * SUDOKU_SIZE + c)
                 IN /\ Range(RowRing(n)) = n..(n + 3)
                    /\ \A m \in n..(n + 3) :
                          /\ identifier[m] = <<v, r, c>>
                          /\ leftNode[rightNode[m]] = m
                          /\ m \in Range(ColumnList(columnNode[m]))
                    /\ RowColumns(n) =
                          <<ring[r * SUDOKU_SIZE + c + 1],
                            ring[N2 + r * SUDOKU_SIZE + v + 1],
                            ring[2 * N2 + c * SUDOKU_SIZE + v + 1],
                            ring[3 * N2 + b * SUDOKU_SIZE + v + 1]>>

ConstructedShapeWitness ==
    /\ pc = "update"
    /\ covered = <<>>
    /\ Len(ActiveColumns) = COLUMNS
    /\ \E n \in RowNodes : identifier[n] = <<SUDOKU_SIZE - 1, SUDOKU_SIZE - 1,
                                             SUDOKU_SIZE - 1>>

\* C11: for an input file that holds a completed valid grid (no -1, every
\* row, column and box holds every value), preload empties the column ring,
\* the first invocation of search reports Solved without selecting a column
\* or trying a row (CURRENT_SOLUTION stays empty, no invocation is nested),
\* no failure is reported, and the one grid printed is the grid of the file.
Token(k) == inputFile.tokens[k + 1]
FullValidInput ==
    /\ Opened
    /\ Len(inputFile.tokens) = SUDOKU_SIZE_SQUARED
    /\ \A k \in Cells : Token(k) \in Values
    /\ \A u \in Units : {Token(k) : k \in u} = Values

FullGridSolvedAtOnce ==
    FullValidInput =>
        /\ frames = <<>>
        /\ CURRENT_SOLUTION = <<>>
        /\ ~Exhausted
        /\ pc \in {"update", "update_column", "update_row", "update_cover",
                   "search", "return_false", "exit"}
        /\ pc \in {"search", "return_false", "exit"} =>
              rightNode[headNode] = headNode
        /\ pc \in {"return_false", "exit"} =>
              printed = <<[k \in Cells |-> Token(k)]>>

FullGridSolvedAtOnceWitness ==
    /\ FullValidInput
    /\ pc = "exit"
    /\ Solved
    /\ Len(preloaded) = SUDOKU_SIZE_SQUARED

\* C12: for every input grid with values in -1..N-1, with consistent or with
\* contradictory clues, preload followed by search terminates: the traversal
\* of the column ring in updateDoublyLinkedList reaches the head node, and
\* search then returns to sudokuSolver, which has reported Solved or
\* Exhausted when it returns.
PreloadAndSearchTerminate ==
    /\ (pc = "update") ~> (pc = "search" /\ update.columnNode = headNode
                            /\ frames = <<>>)
    /\ (pc = "search") ~> (pc = "exit" /\ returnCode = 0 /\ frames = <<>>
                            /\ (Solved \/ Exhausted))

PreloadAndSearchTerminateWitness ==
    /\ pc = "exit"
    /\ Opened
    /\ ~PairwiseConsistent
    /\ Exhausted
    /\ preloaded # <<>>

\* C13: once an invocation of search has found the column ring empty, no
\* column is covered or uncovered, no row is tried, CURRENT_SOLUTION is not
\* popped, the enclosing invocations return false (Solved) one after the
\* other until sudokuSolver returns, no failure is reported, and the grid is
\* printed exactly once.
FirstSolutionOnly ==
    /\ [](Solved => /\ Len(printed) = 1
                    /\ ~Exhausted
                    /\ pc \in {"return_false", "exit"}
                    /\ rightNode[headNode] = headNode
                    /\ (pc = "exit" => frames = <<>> /\ returnCode = 0))
    /\ [][Solved => /\ Current' = Current
                    /\ covered' = covered
                    /\ CURRENT_SOLUTION' = CURRENT_SOLUTION
                    /\ printed' = printed
                    /\ SUDOKU_SOLUTION' = SUDOKU_SOLUTION
                    /\ \/ frames # <<>> /\ frames' = Pop(frames)
                       \/ frames = <<>> /\ frames' = <<>> /\ pc' = "exit"]_vars

FirstSolutionOnlyWitness ==
    /\ Solved
    /\ pc = "return_false"
    /\ Len(frames) = 1
    /\ Len(CURRENT_SOLUTION) > 1
    /\ preloaded # <<>>

\* C14: every column updateDoublyLinkedList has covered (the four columns of
\* each row it matched) stays out of the column ring in every state of
\* search and after search has returned, Exhausted included; the columns
\* search uncovers are columns search covered, so when search returns
\* Exhausted exactly the columns of preload are still covered.
InSearch ==
    pc \in {"search", "cover_chosen", "row_loop", "cover_row", "uncover_chosen",
            "uncover_row", "pop_row", "return_false", "no_solution", "exit"}
PreloadColumns == UNION {Range(RowColumns(n)) : n \in Range(preloaded)}

PreloadCoversPermanent ==
    (Opened /\ InSearch) =>
        LET ring == Range(ActiveColumns)
            first == SubSeq(covered, 1, 4 * Len(preloaded))
        IN /\ PreloadColumns \cap ring = {}
           /\ \A c \in PreloadColumns : leftNode[rightNode[c]] # c
           /\ Len(covered) >= 4 * Len(preloaded)
           /\ Range(first) = PreloadColumns
           /\ (pc = "no_solution" \/ Exhausted) =>
                 /\ covered = first
                 /\ ring = ColumnNodes \ PreloadColumns

PreloadCoversPermanentWitness ==
    /\ pc = "exit"
    /\ Exhausted
    /\ Len(preloaded) > 1
    /\ Len(ActiveColumns) > 4

\* C15: when preload has run on a grid with k pairwise consistent clues, for
\* every clue v at cell (r, c) the columns cell (r, c), row r value v,
\* column c value v and box value v are out of the column ring, the ring has
\* lost exactly 4k columns, k rows have been matched, each by 4 covers, and
\* the solution buffer holds v at cell (r, c).
\* The column nodes (numbered in construction order) of the constraints of
\* the clue at cell k.
ClueColumns(k) ==
    LET N2 == SUDOKU_SIZE * SUDOKU_SIZE
    IN {1 + k,
        1 + N2 + CellRow(k) * SUDOKU_SIZE + Clue(k),
        1 + 2 * N2 + CellColumn(k) * SUDOKU_SIZE + Clue(k),
        1 + 3 * N2 + CellBox(k) * SUDOKU_SIZE + Clue(k)}
ClueCells == {k \in Cells : Clue(k) # 0 - 1}
AfterPreload == Opened /\ pc = "search" /\ frames = <<>>

PreloadCoversClues ==
    (AfterPreload /\ PairwiseConsistent) =>
        LET ring == ActiveColumns
        IN /\ \A k \in ClueCells :
                 /\ ClueColumns(k) \cap Range(ring) = {}
                 /\ SUDOKU_SOLUTION[k] = Clue(k)
                 /\ writes[k] = 1
           /\ Len(ring) = COLUMNS - 4 * Cardinality(ClueCells)
           /\ Range(ring) = ColumnNodes \ UNION {ClueColumns(k) : k \in ClueCells}
           /\ Len(preloaded) = Cardinality(ClueCells)
           /\ Len(covered) = 4 * Cardinality(ClueCells)
           /\ \A k \in Cells \ ClueCells : writes[k] = 0

PreloadCoversCluesWitness ==
    /\ AfterPreload
    /\ PairwiseConsistent
    /\ Cardinality(ClueCells) = 5
    /\ Len(ActiveColumns) = COLUMNS - 20

\* C16: the status sudokuSolver returns tells the three outcomes apart: it
\* is -1 exactly when the input was unreadable and, a solved run returning
\* 0, a run that reports that no solution exists returns a status other
\* than 0 and -1.
StatusDistinguishesOutcomes ==
    pc = "exit" =>
        /\ (returnCode = 0 - 1) <=> ~Opened
        /\ Solved => returnCode = 0
        /\ Exhausted => returnCode \notin {0, 0 - 1}

\* C17: when the input file cannot be opened, or does not hold N^2 integers,
\* sudokuSolver returns -1 at once: the structure is not built, nothing is
\* preloaded, search is not invoked and nothing is reported.
Unreadable ==
    ~inputFile.opens \/ Len(inputFile.tokens) < SUDOKU_SIZE_SQUARED

UnreadableSurfacedAtOnce ==
    Unreadable =>
        /\ pc = "exit"
        /\ returnCode = 0 - 1
        /\ Current = EmptyHeap
        /\ preloaded = <<>>
        /\ covered = <<>>
        /\ frames = <<>>
        /\ ~Solved
        /\ ~Exhausted

\* C18: in every state of search the number of rows search has chosen and
\* not taken back (the length of CURRENT_SOLUTION, one row for every
\* invocation that is trying a row) is at most N^2 minus the number of clues
\* of the input grid.
ChosenRowsBounded ==
    (Opened /\ InSearch) =>
        Len(CURRENT_SOLUTION) <= SUDOKU_SIZE_SQUARED - Cardinality(ClueCells)

FailureRestoresStructure ==
    [][pc = "uncover_chosen" =>
          /\ structureVars' = Top.entry.structure
          /\ CURRENT_SOLUTION' = Top.entry.solution
          /\ Ring(Current') = Ring([Current EXCEPT
                                       !.rightNode = Top.entry.structure[2]])]_vars

FailureRestoresStructureWitness ==
    /\ pc = "uncover_row"
    /\ Len(frames) > 1
    /\ \E i \in DOMAIN frames :
          /\ i > 1
          /\ frames[i].entry.structure # frames[i - 1].entry.structure
          /\ frames[i].entry.structure # structureVars
    /\ \E i \in DOMAIN trace : trace[i][1] = "uncover"

\* C21: an invocation of search entered with an active column of columnSize
\* 0 pushes no row onto CURRENT_SOLUTION and makes no recursive call: it
\* covers the column it selects, finds no row, uncovers the column and
\* returns true (failure).
\* Some column linked into the ring had columnSize 0 when the invocation of
\* frame f was entered.
ZeroAtEntry(f) ==
    \E c \in ColumnNodes :
        /\ f.entry.structure[1][f.entry.structure[2][c]] = c
        /\ f.entry.structure[5][c] = 0

ZeroColumnFailsAtOnce ==
    \A i \in DOMAIN frames :
        ZeroAtEntry(frames[i]) =>
            /\ i = Len(frames)
            /\ pc \in {"cover_chosen", "row_loop", "uncover_chosen"}
            /\ CURRENT_SOLUTION = frames[i].entry.solution
            /\ frames[i].entry.structure[5][frames[i].chosenColumn] = 0
            /\ pc = "row_loop" => frames[i].rowNode = frames[i].chosenColumn

ZeroColumnFailsAtOnceWitness ==
    /\ pc = "uncover_chosen"
    /\ Len(frames) > 1
    /\ ZeroAtEntry(Top)
    /\ rightNode[headNode] # Top.chosenColumn
    /\ Top.entry.structure[5][Top.entry.structure[2][headNode]] > 0

\* C22: the committed rows (the rows preload matched and the rows of
\* CURRENT_SOLUTION) are pairwise disjoint in their constraint columns, and
\* a row linked into the vertical list of an active column shares no
\* constraint column with a committed row; the row search is about to try
\* shares none either.
CommittedDisjoint ==
    \A i, j \in DOMAIN Committed :
        i < j => ConstraintColumns(Committed[i]) \cap ConstraintColumns(Committed[j]) = {}
Compatible(n) ==
    \A k \in DOMAIN Committed :
        ConstraintColumns(n) \cap ConstraintColumns(Committed[k]) = {}
LiveRowsCompatible == \A n \in LiveRowNodes : Compatible(n)

\* As stated: in every state of preload and search.
CommittedRowsExcludeLiveRows ==
    Opened => CommittedDisjoint /\ LiveRowsCompatible

\* A row is being committed (it is recorded, its columns are being covered)
\* or taken back (its columns are being uncovered, it is not popped yet).
RowInTransit == pc \in {"update_cover", "cover_row", "uncover_row", "pop_row"}

\* Amended: the committed rows are disjoint in every state; the live rows
\* are compatible with them in every state in which no row is in transit.
CommittedRowsExcludeLiveRowsAtRest ==
    Opened =>
        /\ CommittedDisjoint
        /\ ~RowInTransit => LiveRowsCompatible
        /\ (pc = "row_loop" /\ Top.rowNode # Top.chosenColumn) =>
              Compatible(Top.rowNode)

CommittedRowsExcludeLiveRowsAtRestWitness ==
    /\ pc = "row_loop"
    /\ Top.rowNode # Top.chosenColumn
    /\ Len(frames) > 1
    /\ preloaded # <<>>
    /\ LiveRowNodes # {}
    /\ \E i \in DOMAIN trace : trace[i][1] = "uncover"

\* C23: in preload and in search, for every input grid, coverColumn is
\* called only on a column that is in the column ring (and is not covered),
\* and uncoverColumn only on a column that is covered (and is not in the
\* ring); the covered columns and the ring always partition the columns.
InRing(c) == c \in Range(ActiveColumns)
LastCall == trace'[Len(trace')]

NoDoubleCoverNoSpuriousUncover ==
    /\ [](Opened =>
            /\ Range(covered) \cap Range(ActiveColumns) = {}
            /\ Range(covered) \cup Range(ActiveColumns) = ColumnNodes
            /\ Cardinality(Range(covered)) = Len(covered))
    /\ [][Len(trace') > Len(trace) =>
            /\ Len(trace') = Len(trace) + 1
            /\ IF LastCall[1] = "cover"
               THEN InRing(LastCall[2]) /\ LastCall[2] \notin Range(covered)
               ELSE ~InRing(LastCall[2]) /\ LastCall[2] \in Range(covered)]_vars

NoDoubleCoverNoSpuriousUncoverWitness ==
    /\ ~PairwiseConsistent
    /\ pc = "uncover_row"
    /\ preloaded # <<>>
    /\ \E i \in DOMAIN trace : trace[i][1] = "uncover"
    /\ Len(covered) > 4 * Len(preloaded)

\* C24: a clue that clashes with an earlier clue is dropped by preload
\* without a trace. The cells of the rows preload matched, and the clashes of
\* the clue at cell k with a clue at an earlier row-major position:
MatchedCells ==
    {identifier[n][2] * SUDOKU_SIZE + identifier[n][3] : n \in Range(preloaded)}
ClashesEarlier(k) ==
    \E m \in ClueCells : m < k /\ Clue(m) = Clue(k) /\ SameUnit(m, k)
ClashesEarlierMatched(k) ==
    \E m \in MatchedCells : m < k /\ Clue(m) = Clue(k) /\ SameUnit(m, k)

\* The program is executed on the grid of this execution with the cell of
\* one clue preload did not match made empty; the state preload left is kept
\* for comparison. A new process, as in Rerun.
RerunCleared ==
    /\ AfterPreload
    /\ earlier = <<>>
    /\ \E k \in ClueCells \ MatchedCells :
          /\ earlier' = <<[cell |-> k, structure |-> structureVars, trace |-> trace,
                           preloaded |-> preloaded, solution |-> SUDOKU_SOLUTION]>>
          /\ inputFile' = [opens |-> TRUE,
                           tokens |-> [i \in 1..SUDOKU_SIZE_SQUARED |->
                                          IF i = k + 1 THEN 0 - 1 ELSE Clue(i - 1)]]
    /\ SUDOKU_INPUT' = readInputGrid(inputFile'.tokens)
    /\ LET st == Built
       IN /\ SetStructure(st)
          /\ columnNode' = st.columnNode
          /\ identifier' = st.identifier
    /\ returnCode' = Null
    /\ pc' = "update"
    /\ SUDOKU_SOLUTION' = [k \in Cells |-> IF k = 0 THEN 0 - 1 ELSE 0]
    /\ CURRENT_SOLUTION' = <<>>
    /\ update' = [columnNode |-> Null, rowNode |-> Null, rightLink |-> Null]
    /\ frames' = <<>>
    /\ printed' = <<>>
    /\ failPrinted' = FALSE
    /\ covered' = <<>>
    /\ preloaded' = <<>>
    /\ writes' = [k \in Cells |-> 0]
    /\ trace' = <<>>
    /\ UNCHANGED matrixVars

ClearedNext == Next \/ RerunCleared

\* An execution, and then one on the grid with a dropped clue made empty.
ClearedSpec == Init /\ [][ClearedNext]_vars

\* As stated: for a clue that clashes with a clue at an earlier position
\* preload covers no column and stores nothing at its cell.
ClashingClueIgnored ==
    AfterPreload =>
        \A k \in ClueCells :
            ClashesEarlier(k) => k \notin MatchedCells /\ writes[k] = 0

\* Amended: a clue is matched exactly when it clashes with no earlier clue
\* that was matched; for a clue not matched nothing is stored at its cell
\* and no column is covered (the calls of coverColumn are the four of each
\* matched row, in order); and preload leaves the pointers and columnSize of
\* every node, the calls made and the solution buffer as it leaves them for
\* the grid with that cell empty.
ClashingMatchedClueIgnored ==
    AfterPreload =>
        /\ \A k \in ClueCells : k \in MatchedCells <=> ~ClashesEarlierMatched(k)
        /\ \A k \in Cells \ MatchedCells : writes[k] = 0
        /\ Len(trace) = 4 * Len(preloaded)
        /\ \A i \in DOMAIN trace :
              trace[i] = <<"cover", RowColumns(preloaded[((i - 1) \div 4) + 1])[((i - 1) % 4) + 1]>>
        /\ earlier # <<>> =>
              /\ Clue(earlier[1].cell) = 0 - 1
              /\ structureVars = earlier[1].structure
              /\ trace = earlier[1].trace
              /\ preloaded = earlier[1].preloaded
              /\ SUDOKU_SOLUTION = earlier[1].solution

ClashingMatchedClueIgnoredWitness ==
    /\ AfterPreload
    /\ earlier # <<>>
    /\ preloaded # <<>>
    /\ \E k \in ClueCells : ClashesEarlier(k) /\ k \in MatchedCells

\* C25: coverColumn is a pure link-splice. A step that calls coverColumn on
\* column C (the call appended to trace), the row nodes of C's vertical list
\* at the call, and the nodes the call unlinks: the other nodes of their rows.
CoverCall == Len(trace') = Len(trace) + 1 /\ LastCall[1] = "cover"
CoveredList == Range(ColumnList(LastCall[2]))
Unlinked == UNION {Range(RowRing(n)) \ {n} : n \in CoveredList}

\* What the call leaves alone whatever the column: C's own fields and list,
\* the horizontal links of row nodes, and everything but the neighbours'
\* pointers and the sizes of the other columns of the rows of C.
SpliceFrame ==
    LET C == LastCall[2]
    IN /\ leftNode'[C] = leftNode[C]
       /\ rightNode'[C] = rightNode[C]
       /\ columnSize'[C] = columnSize[C]
       /\ \A n \in CoveredList \cup {C} :
             upperNode'[n] = upperNode[n] /\ lowerNode'[n] = lowerNode[n]
       /\ \A n \in RowNodes :
             leftNode'[n] = leftNode[n] /\ rightNode'[n] = rightNode[n]
       /\ \A n \in Nodes :
             /\ leftNode'[n] # leftNode[n] => n = rightNode[C]
             /\ rightNode'[n] # rightNode[n] => n = leftNode[C]
             /\ upperNode'[n] # upperNode[n] => \E x \in Unlinked : n = lowerNode[x]
             /\ lowerNode'[n] # lowerNode[n] => \E x \in Unlinked : n = upperNode[x]
       /\ \A c \in ColumnNodes :
             columnSize'[c] # columnSize[c] => c \in {columnNode[x] : x \in Unlinked}
       /\ columnNode' = columnNode
       /\ identifier' = identifier

\* As stated: in addition the call changes neither vertical pointer stored
\* in a node it unlinks.
CoverIsPureSplice ==
    [][CoverCall =>
          /\ SpliceFrame
          /\ \A x \in Unlinked :
                upperNode'[x] = upperNode[x] /\ lowerNode'[x] = lowerNode[x]]_vars

\* Amended: the call leaves the lowerNode of every node it unlinks, and the
\* upperNode of an unlinked node exactly when the node above it is not one
\* the same call unlinks (two rows of C that share another column and are
\* neighbours there: unlinking the upper one rewrites the upperNode of the
\* lower one before that one is unlinked).
CoverIsSpliceOfLinkedNodes ==
    [][CoverCall =>
          /\ SpliceFrame
          /\ \A x \in Unlinked :
                /\ lowerNode'[x] = lowerNode[x]
                /\ upperNode'[x] = upperNode[x] <=> upperNode[x] \notin Unlinked]_vars

CoverIsSpliceOfLinkedNodesWitness ==
    /\ trace # <<>>
    /\ trace[Len(trace)][1] = "cover"
    /\ pc \in {"cover_row", "try_row"}
    /\ \E x \in RowNodes :
          /\ columnNode[x] \notin Range(ActiveColumns)
          /\ upperNode[x] \in RowNodes
          /\ lowerNode[upperNode[x]] # x
          /\ upperNode[lowerNode[x]] # x
          /\ lowerNode[upperNode[upperNode[x]]] = lowerNode[x]

\* C26: each committed row removes exactly four columns, one per constraint
\* family: at the entry of every search invocation the ring holds, of each
\* of the four families (Cell, RowValue, ColumnValue, BoxValue, numbered 0 to
\* 3 in construction order), N^2 columns less the number of committed rows.
Family(c) == (c - 1) \div SUDOKU_SIZE_SQUARED
ActiveOfFamily(f) == {c \in Range(ActiveColumns) : Family(c) = f}
AtSearchEntry == Opened /\ pc = "search"

FourColumnsPerCommittedRow ==
    AtSearchEntry =>
        /\ \A f \in 0..3 :
              Cardinality(ActiveOfFamily(f)) = SUDOKU_SIZE_SQUARED - Len(Committed)
        /\ \A n \in Range(Committed) :
              /\ {Family(c) : c \in Range(RowColumns(n))} = 0..3
              /\ Range(RowColumns(n)) \cap Range(ActiveColumns) = {}

FourColumnsPerCommittedRowWitness ==
    /\ AtSearchEntry
    /\ preloaded # <<>>
    /\ Len(CURRENT_SOLUTION) > 1
    /\ Cardinality(ActiveOfFamily(2)) = SUDOKU_SIZE_SQUARED - Len(Committed)
    /\ ActiveColumns # <<>>

\* ========================================================= main_algorithm_x
\* The matrix variant: exactCoverProblem is a vector of rows, a row a vector
\* of bits (sequence) and the row's number at construction
\* (numberInOriginalSequence). Indices are counted from 0 as in the source;
\* element i of a vector v is v[i + 1].

\* vector::erase(begin() + i) and vector::insert(begin() + i, x)
Erase(v, i) == SubSeq(v, 1, i) \o SubSeq(v, i + 2, Len(v))
Insert(v, i, x) == SubSeq(v, 1, i) \o <<x>> \o SubSeq(v, i + 1, Len(v))

\* The elements of a set of integers in ascending order (std::set iteration,
\* and the order in which an ascending loop collects indices).
Ascending(S) ==
    [k \in 1..Cardinality(S) |->
        CHOOSE i \in S : Cardinality({j \in S : j < i}) = k - 1]

\* Lines 60-78: the four bits of row i.
MatrixRow(i) ==
    LET Row == i \div SUDOKU_SIZE_SQUARED
        Column == (i \div SUDOKU_SIZE) % SUDOKU_SIZE
        Box == (Row \div SUDOKU_SIZE_SQUARE_ROOT) * SUDOKU_SIZE_SQUARE_ROOT
                 + (Column \div SUDOKU_SIZE_SQUARE_ROOT)
        ones == {Row * SUDOKU_SIZE + Column,
                 SUDOKU_SIZE_SQUARED + Row * SUDOKU_SIZE + (i % SUDOKU_SIZE),
                 2 * SUDOKU_SIZE_SQUARED + Column * SUDOKU_SIZE + (i % SUDOKU_SIZE),
                 3 * SUDOKU_SIZE_SQUARED + Box * SUDOKU_SIZE + (i % SUDOKU_SIZE)}
    IN [sequence |-> [j \in 1..COLUMNS |-> (j - 1) \in ones],
        numberInOriginalSequence |-> i]
initializeMatrix == [i \in 1..ROWS |-> MatrixRow(i - 1)]

\* ------------------------------------------- removeRowsAndColumnsForGivenRow
\* Lines 160-164: the positions of the bits of the row, ascending.
ColumnsToDelete(matrix, row) ==
    Ascending({i \in 0..(Len(matrix[row + 1].sequence) - 1) :
                  matrix[row + 1].sequence[i + 1]})

\* Lines 169-186: the columns are saved and erased one by one, each position
\* less the number of columns erased before it; the rows with a bit in one
\* of them are collected. st is the matrix, deletedColumns and rowsToDelete.
RECURSIVE DeleteColumns(_, _, _)
DeleteColumns(st, columnsToDelete, i) ==
    IF i >= Len(columnsToDelete) THEN st
    ELSE LET c == columnsToDelete[i + 1] - i
             deletedColumn ==
                 [sequence |-> [j \in 1..Len(st.matrix) |-> st.matrix[j].sequence[c + 1]],
                  numberInOriginalSequence |-> columnsToDelete[i + 1]]
             rows == {j \in 0..(Len(st.matrix) - 1) : st.matrix[j + 1].sequence[c + 1]}
         IN DeleteColumns(
                [matrix |-> [j \in 1..Len(st.matrix) |->
                                [st.matrix[j] EXCEPT !.sequence = Erase(@, c)]],
                 deletedColumns |-> Append(st.deletedColumns, deletedColumn),
                 rowsToDelete |-> st.rowsToDelete \cup rows],
                columnsToDelete, i + 1)

\* Variant: the saved row is numbered with its position at the erase.
DeletedRowNumberedAtErase(matrix, it, deletedSoFar) ==
    [sequence |-> matrix[it - deletedSoFar + 1],
     numberInOriginalSequence |-> it - deletedSoFar]

\* Lines 194-199: the row saved before it is erased.
DeletedRow(matrix, it, deletedSoFar) ==
    [sequence |-> matrix[it - deletedSoFar + 1],
     numberInOriginalSequence |-> it]

\* Lines 192-203: the rows are saved and erased in ascending order, each
\* position less the number of rows erased before it.
RECURSIVE DeleteRows(_, _, _)
DeleteRows(st, rowsToDelete, deletedSoFar) ==
    IF deletedSoFar >= Len(rowsToDelete) THEN st
    ELSE LET it == rowsToDelete[deletedSoFar + 1]
         IN DeleteRows(
                [matrix |-> Erase(st.matrix, it - deletedSoFar),
                 deletedRows |-> Append(st.deletedRows,
                                        DeletedRow(st.matrix, it, deletedSoFar))],
                rowsToDelete, deletedSoFar + 1)

removeRowsAndColumnsForGivenRow(matrix, row) ==
    LET columns == DeleteColumns([matrix |-> matrix, deletedColumns |-> <<>>,
                                  rowsToDelete |-> {}],
                                 ColumnsToDelete(matrix, row), 0)
        rows == DeleteRows([matrix |-> columns.matrix, deletedRows |-> <<>>],
                           Ascending(columns.rowsToDelete), 0)
    IN [matrix |-> rows.matrix,
        deletedColumns |-> columns.deletedColumns,
        deletedRows |-> rows.deletedRows]

\* -------------------------------- restoreRowsAndColumnsForGivenRowAlgorithmX
\* Lines 217-219: each row is inserted at the position it was erased from.
RECURSIVE RestoreRows(_, _, _)
RestoreRows(matrix, rowsToRestore, i) ==
    IF i >= Len(rowsToRestore) THEN matrix
    ELSE RestoreRows(Insert(matrix, rowsToRestore[i + 1].numberInOriginalSequence,
                            rowsToRestore[i + 1].sequence),
                     rowsToRestore, i + 1)

\* Lines 222-227: each column is inserted into every row at the position it
\* was erased from.
RECURSIVE RestoreColumns(_, _, _)
RestoreColumns(matrix, columnsToRestore, i) ==
    IF i >= Len(columnsToRestore) THEN matrix
    ELSE LET currColBeingRestored == columnsToRestore[i + 1].numberInOriginalSequence
         IN RestoreColumns(
                [j \in 1..Len(matrix) |->
                    [matrix[j] EXCEPT !.sequence =
                        Insert(@, currColBeingRestored,
                               columnsToRestore[i + 1].sequence[j])]],
                columnsToRestore, i + 1)

restoreRowsAndColumnsForGivenRowAlgorithmX(matrix, columnsToRestore, rowsToRestore) ==
    RestoreColumns(RestoreRows(matrix, rowsToRestore, 0), columnsToRestore, 0)

\* ---------------------------------------------- convertSudokuGridToAlgorithmX
\* Lines 243-254: the rows of the matrix that stand for value input[r][c] at
\* cell (r, c) and hold a bit (positions in the matrix).
MatchingRows(matrix, input, inputR, inputC) ==
    {i \in 0..(Len(matrix) - 1) :
        LET realRowNumber == matrix[i + 1].numberInOriginalSequence
        IN /\ realRowNumber % SUDOKU_SIZE = input[inputR][inputC]
           /\ realRowNumber \div SUDOKU_SIZE_SQUARED = inputR
           /\ (realRowNumber \div SUDOKU_SIZE) % SUDOKU_SIZE = inputC
           /\ \E j \in DOMAIN matrix[i + 1].sequence : matrix[i + 1].sequence[j]}

\* ----------------------------------------------- chooseProperColumnAlgorithmX
\* Lines 286-291: the number of bits in column col.
NumberOfOnes(matrix, col) ==
    Cardinality({row \in 1..Len(matrix) : matrix[row].sequence[col + 1]})

\* Lines 292-295: one iteration of the loop over the columns.
ChooseProperColumn(matrix, col, loop) ==
    LET currNumberOfOnes == NumberOfOnes(matrix, col)
    IN IF currNumberOfOnes < loop.minNumberOfOnes
       THEN [minNumberOfOnes |-> currNumberOfOnes, columnNumber |-> col]
       ELSE loop

\* Lines 282-299. minNumberOfOnes starts at INT_MAX; columnNumber has no
\* initial value and is assigned in the first iteration (a matrix with rows
\* has columns: a row keeps its four bits until it is erased).
INT_MAX == 2147483647
chooseProperColumnAlgorithmX(matrix) ==
    LET Body(col, loop) == ChooseProperColumn(matrix, col, loop)
    IN For(Body, 0, Len(matrix[1].sequence),
           [minNumberOfOnes |-> INT_MAX, columnNumber |-> Null]).columnNumber

\* Lines 317-326: the rows of currSolution are written into the grid.
RECURSIVE WriteSolution(_, _, _)
WriteSolution(solution, current, i) ==
    IF i >= Len(current) THEN solution
    ELSE LET actualRow == current[i + 1]
         IN WriteSolution(
                [solution EXCEPT ![(actualRow \div SUDOKU_SIZE_SQUARED) * SUDOKU_SIZE
                                     + ((actualRow \div SUDOKU_SIZE) % SUDOKU_SIZE)] =
                                   actualRow % SUDOKU_SIZE],
                current, i + 1)

\* ------------------------------------------------------------------ actions
MatrixTop == matrixFrames[Len(matrixFrames)]
SetMatrixTop(f) == [matrixFrames EXCEPT ![Len(matrixFrames)] = f]

\* Lines 370-378: main_algorithm_x is executed on the file once
\* main_dancing_links has exited. readInputGrid (lines 121-137) is the one of
\* main_dancing_links; initializeMatrix builds the matrix.
MatrixStart ==
    /\ pc = "exit"
    /\ matrixPc = "start"
    /\ IF inputFile.opens
       THEN /\ sudokuInput' = readInputGrid(inputFile.tokens)
            /\ exactCoverProblem' = initializeMatrix
            /\ matrixPc' = "convert"
            /\ UNCHANGED matrixReturnCode
       ELSE /\ matrixReturnCode' = 0 - 1
            /\ matrixPc' = "exit"
            /\ UNCHANGED <<sudokuInput, exactCoverProblem>>
    /\ UNCHANGED <<linksVars, sudokuSolution, currSolution, converting, matrixFrames,
                   matrixPrinted, matrixFailPrinted, converted>>

\* Lines 239-272: one cell of the grid. For a clue the first matching row is
\* removed with its columns and the rows that share one, and the value is
\* stored; after the last cell search() is called (line 379).
MatrixConvert ==
    /\ matrixPc = "convert"
    /\ LET inputR == converting \div SUDOKU_SIZE
           inputC == converting % SUDOKU_SIZE
           rows == MatchingRows(exactCoverProblem, sudokuInput, inputR, inputC)
       IN IF sudokuInput[inputR][inputC] # 0 - 1 /\ rows # {}
          THEN LET i == Ascending(rows)[1]
               IN /\ exactCoverProblem' =
                        removeRowsAndColumnsForGivenRow(exactCoverProblem, i).matrix
                  /\ sudokuSolution' = [sudokuSolution EXCEPT ![converting] =
                                           sudokuInput[inputR][inputC]]
                  /\ converted' = Append(converted,
                                         exactCoverProblem[i + 1].numberInOriginalSequence)
          ELSE UNCHANGED <<exactCoverProblem, sudokuSolution, converted>>
    /\ converting' = converting + 1
    /\ matrixPc' = IF converting + 1 < SUDOKU_SIZE_SQUARED THEN "convert" ELSE "search"
    /\ UNCHANGED <<linksVars, matrixReturnCode, sudokuInput, currSolution, matrixFrames,
                   matrixPrinted, matrixFailPrinted>>

\* Lines 314-333: an invocation of search begins. With no row left the grid
\* is written and printed and false is returned; else the column is chosen
\* and the loop over the rows starts.
MatrixSearchEnter ==
    /\ matrixPc = "search"
    /\ IF exactCoverProblem = <<>>
       THEN /\ sudokuSolution' = WriteSolution(sudokuSolution, currSolution, 0)
            /\ matrixPrinted' = Append(matrixPrinted, sudokuSolution')
            /\ matrixPc' = "return_false"
            /\ UNCHANGED matrixFrames
       ELSE /\ matrixFrames' =
                   Append(matrixFrames,
                          [row |-> 0,
                           columnToProcess |-> chooseProperColumnAlgorithmX(exactCoverProblem),
                           deletedColumns |-> <<>>,
                           deletedRows |-> <<>>,
                           before |-> <<>>])
            /\ matrixPc' = "row_loop"
            /\ UNCHANGED <<sudokuSolution, matrixPrinted>>
    /\ UNCHANGED <<linksVars, matrixReturnCode, sudokuInput, exactCoverProblem,
                   currSolution, converting, matrixFailPrinted, converted>>

\* Lines 333-341 and 352: the loop goes on to the next row with a bit in the
\* chosen column; the row is recorded and removed, and search() is called.
\* With no such row left the invocation returns true.
MatrixTryRow ==
    /\ matrixPc = "row_loop"
    /\ LET rows == {r \in MatrixTop.row..(Len(exactCoverProblem) - 1) :
                       exactCoverProblem[r + 1].sequence[MatrixTop.columnToProcess + 1]}
       IN IF rows # {}
          THEN LET row == Ascending(rows)[1]
                   removed == removeRowsAndColumnsForGivenRow(exactCoverProblem, row)
               IN /\ currSolution' =
                        Append(currSolution,
                               exactCoverProblem[row + 1].numberInOriginalSequence)
                  /\ exactCoverProblem' = removed.matrix
                  /\ matrixFrames' =
                        SetMatrixTop([MatrixTop EXCEPT
                                         !.row = row,
                                         !.before = exactCoverProblem,
                                         !.deletedColumns = removed.deletedColumns,
                                         !.deletedRows = removed.deletedRows])
                  /\ matrixPc' = "search"
          ELSE /\ matrixFrames' = SubSeq(matrixFrames, 1, Len(matrixFrames) - 1)
               /\ matrixPc' = "return_true"
               /\ UNCHANGED <<currSolution, exactCoverProblem>>
    /\ UNCHANGED <<linksVars, matrixReturnCode, sudokuInput, sudokuSolution, converting,
                   matrixPrinted, matrixFailPrinted, converted>>

\* Lines 343-350, and 379-381: the invocation called returned true. The
\* caller restores what it removed, drops the row and goes on with the next
\* row; sudokuSolver goes on to report.
MatrixReturnTrue ==
    /\ matrixPc = "return_true"
    /\ IF matrixFrames = <<>>
       THEN /\ matrixPc' = "no_solution"
            /\ UNCHANGED <<exactCoverProblem, currSolution, matrixFrames>>
       ELSE /\ exactCoverProblem' =
                   restoreRowsAndColumnsForGivenRowAlgorithmX(
                       exactCoverProblem, MatrixTop.deletedColumns, MatrixTop.deletedRows)
            /\ currSolution' = SubSeq(currSolution, 1, Len(currSolution) - 1)
            /\ matrixFrames' = SetMatrixTop([MatrixTop EXCEPT !.row = @ + 1])
            /\ matrixPc' = "row_loop"
    /\ UNCHANGED <<linksVars, matrixReturnCode, sudokuInput, sudokuSolution, converting,
                   matrixPrinted, matrixFailPrinted, converted>>

\* Lines 343-345, and 379-384: false is returned through every active
\* invocation; sudokuSolver prints nothing more and returns 0.
MatrixReturnFalse ==
    /\ matrixPc = "return_false"
    /\ IF matrixFrames = <<>>
       THEN /\ matrixReturnCode' = 0
            /\ matrixPc' = "exit"
            /\ UNCHANGED matrixFrames
       ELSE /\ matrixFrames' = SubSeq(matrixFrames, 1, Len(matrixFrames) - 1)
            /\ UNCHANGED <<matrixReturnCode, matrixPc>>
    /\ UNCHANGED <<linksVars, sudokuInput, sudokuSolution, exactCoverProblem,
                   currSolution, converting, matrixPrinted, matrixFailPrinted, converted>>

\* Lines 379-384: "No Solution Found" is printed and 0 is returned.
MatrixReportNoSolution ==
    /\ matrixPc = "no_solution"
    /\ matrixFailPrinted' = TRUE
    /\ matrixReturnCode' = 0
    /\ matrixPc' = "exit"
    /\ UNCHANGED <<linksVars, sudokuInput, sudokuSolution, exactCoverProblem,
                   currSolution, converting, matrixFrames, matrixPrinted, converted>>

MatrixNext ==
    \/ MatrixStart
    \/ MatrixConvert
    \/ MatrixSearchEnter
    \/ MatrixTryRow
    \/ MatrixReturnTrue
    \/ MatrixReturnFalse
    \/ MatrixReportNoSolution

BothNext == Next \/ MatrixNext

\* Both programs executed on one file, main_dancing_links first.
BothSpec == Init /\ [][BothNext]_vars

\* What is observed of main_algorithm_x.
MatrixSolved == matrixPrinted # <<>>
MatrixExhausted == matrixFailPrinted
MatrixCommitted == converted \o currSolution

\* The grid main_algorithm_x read: the clue at cell k, and no two clues with
\* the same value sharing a row, a column or a box.
MatrixClue(k) == sudokuInput[k \div SUDOKU_SIZE][k % SUDOKU_SIZE]
MatrixPairwiseConsistent ==
    \A k, m \in Cells :
        (k # m /\ MatrixClue(k) # 0 - 1 /\ MatrixClue(k) = MatrixClue(m)) => ~SameUnit(k, m)

\* C27: in the matrix variant, whenever search reports Solved for a grid with
\* pairwise consistent clues, no constraint column remains: every one of the
\* 4N^2 constraints is covered by exactly one committed row (matched by the
\* conversion or chosen by search), and the printed grid has every value
\* exactly once in every row, column and box.
MatrixSolvedIsExactCover ==
    (MatrixSolved /\ MatrixPairwiseConsistent) =>
        /\ \A c \in 0..(COLUMNS - 1) :
              Cardinality({k \in DOMAIN MatrixCommitted :
                              MatrixRow(MatrixCommitted[k]).sequence[c + 1]}) = 1
        /\ \A u \in Units : {matrixPrinted[1][k] : k \in u} = Values

\* C28: for every input grid with cell values in -1..N-1 the two programs
\* reach the same outcome (Solved, or no solution) and, when Solved, print
\* the same grid.
BothExited ==
    /\ pc = "exit"
    /\ matrixPc = "exit"
    /\ inputFile.opens
    /\ Len(inputFile.tokens) = SUDOKU_SIZE_SQUARED
SameOutcomeSameGrid ==
    BothExited =>
        /\ Solved <=> MatrixSolved
        /\ Exhausted <=> MatrixExhausted
        /\ Solved => printed = matrixPrinted

\* C29: in the matrix variant, for every matrix reachable during search and
\* every row index in it, removeRowsAndColumnsForGivenRow followed by
\* restoreRowsAndColumnsForGivenRowAlgorithmX gives the matrix back: the same
\* rows in the same order with the same numberInOriginalSequence, the same
\* bits at the same positions; and the restore search performs gives back
\* the matrix the row it tried was removed from.
MatrixInSearch == matrixPc \in {"search", "row_loop", "return_true", "return_false"}
RemoveThenRestore(matrix, row) ==
    LET removed == removeRowsAndColumnsForGivenRow(matrix, row)
    IN restoreRowsAndColumnsForGivenRowAlgorithmX(
           removed.matrix, removed.deletedColumns, removed.deletedRows)
RemoveRestoreRoundTrip ==
    /\ [](MatrixInSearch =>
            \A row \in 0..(Len(exactCoverProblem) - 1) :
                RemoveThenRestore(exactCoverProblem, row) = exactCoverProblem)
    /\ [][(matrixPc = "return_true" /\ matrixPc' = "row_loop") =>
             exactCoverProblem' = MatrixTop.before]_vars

RemoveRestoreRoundTripWitness ==
    /\ matrixPc = "row_loop"
    /\ MatrixTop.row > 0
    /\ Len(MatrixTop.deletedRows) > 1
    /\ Len(MatrixTop.deletedColumns) = 4
    /\ exactCoverProblem = MatrixTop.before
    /\ Len(exactCoverProblem) > Len(MatrixTop.deletedRows)
    /\ Len(matrixFrames) > 1

====
